---- MODULE Spec2Model ----
(***************************************************************************)
(* Torque Pro ingestion endpoint (custom_components/torque_pro):           *)
(* TorqueReceiveDataView (route table, session LRU, GET/POST/HEAD          *)
(* handlers) and the config-entry glue of __init__.py that drives it.      *)
(***************************************************************************)
EXTENDS Integers, Sequences, FiniteSets, TLC

\* ---------------------------------------------------------------------------
\* Bounds of the model
\* ---------------------------------------------------------------------------
MaxTime == 2        \* the clock ranges over 0..MaxTime
MaxTtl == 1         \* session_ttl_seconds options range over 1..MaxTtl
MaxCap == 2         \* max_sessions options range over 1..MaxCap
MaxUnknown == 82    \* a payload carries at most MaxUnknown unrecognised sensor codes

\* ---------------------------------------------------------------------------
\* Program constants (const.py)
\* ---------------------------------------------------------------------------
DEFAULT_LANGUAGE == "fr"
RUNTIME_LANG_MAP == [l \in {"fr", "en"} |-> l]
SESSION_TTL_SECONDS == 1800
MAX_SESSIONS == 100

\* ---------------------------------------------------------------------------
\* Finite universes the inputs are drawn from
\* ---------------------------------------------------------------------------
Entries == {"A", "B"}                          \* config entry ids
RawEmails == {"", "a@x", " A@X", "b@x"}        \* email arguments of upsert_route
\* the (imperial, language) settings an entry or a route is given
Prefs == {[imperial |-> FALSE, language |-> "fr"],
          [imperial |-> TRUE,  language |-> "EN"],
          [imperial |-> FALSE, language |-> "de"]}
None == [none |-> TRUE]                        \* Python None / dict miss
SessionIds == {"101", "102", "103"}            \* Torque session ids (digits)
Posts == {"p1", "p2"}                          \* POST handler invocations in flight

\* the configured email of each entry (config_flow: stripped, lowercased, unique)
EntryEmail == [e \in Entries |-> IF e = "A" THEN "a@x" ELSE "b@x"]
\* the TorqueCoordinator built for an entry
CoordinatorOf == [e \in Entries |-> [entry |-> e]]

\* ---------------------------------------------------------------------------
\* String helpers: str.strip() and str.lower() on the strings of the model
\* ---------------------------------------------------------------------------
Strip(s) ==
    CASE s = " A@X" -> "A@X"
      [] s = " a@x" -> "a@x"
      [] s = " "    -> ""
      [] s = " 10 " -> "10"
      [] OTHER      -> s

\* the fallback names f"Vehicle {session_id[:6]}", lowercased and slugified
FallbackNames == {"Vehicle " \o d : d \in SessionIds}
FallbackLower == [n \in FallbackNames |->
                    "vehicle " \o (CHOOSE d \in SessionIds : n = "Vehicle " \o d)]
FallbackSlug == [n \in FallbackNames |->
                    "vehicle_" \o (CHOOSE d \in SessionIds : n = "Vehicle " \o d)]

PoorPattern == {FallbackLower[n] : n \in FallbackNames}

Lower(s) ==
    CASE s = "A@X"  -> "a@x"
      [] s = " A@X" -> " a@x"
      [] s = "EN"   -> "en"
      [] s = "FR"   -> "fr"
      [] s = "Clio" -> "clio"
      [] s = "Zoe"  -> "zoe"
      [] s = "Vehicle" -> "vehicle"
      [] s = "DE"   -> "de"
      [] s = "NaN"  -> "nan"
      [] s = "-Infinity" -> "-infinity"
      [] s \in FallbackNames -> FallbackLower[s]
      [] OTHER      -> s

\* session_id[:6] on the ids of the model (none is longer than six characters)
Prefix6(s) == s

\* homeassistant.util.slugify on the names of the model
slugify(s) ==
    CASE s = "Clio" -> "clio"
      [] s \in FallbackNames -> FallbackSlug[s]
      [] OTHER -> Lower(s)

\* _is_poor_name: empty, 'vehicle', 'vehicule', or 'Vehicle <digits>'
is_poor_name(name) ==
    \/ name = ""
    \/ Strip(name) = ""
    \/ Lower(Strip(name)) \in {"vehicle", "véhicule"}
    \/ Lower(Strip(name)) \in PoorPattern

\* dict helpers: d.get(k), d[k] = v, d.pop(k, None)
Get(d, k) == IF k \in DOMAIN d THEN d[k] ELSE None
Put(d, k, v) == [x \in (DOMAIN d) \cup {k} |-> IF x = k THEN v ELSE d[x]]
Pop(d, k) == [x \in (DOMAIN d) \ {k} |-> d[x]]

\* (variant) _pick_lang without the map: the string as given, stripped, lowercased
pick_lang_unmapped(query_lang) ==
    Lower(Strip(IF query_lang = "" THEN DEFAULT_LANGUAGE ELSE query_lang))

\* _pick_lang: (query_lang or DEFAULT_LANGUAGE).strip().lower(), mapped, default fr
pick_lang(query_lang) ==
    LET l == Lower(Strip(IF query_lang = "" THEN DEFAULT_LANGUAGE ELSE query_lang))
    IN  IF l \in DOMAIN RUNTIME_LANG_MAP THEN RUNTIME_LANG_MAP[l] ELSE DEFAULT_LANGUAGE

\* async_setup_entry: RUNTIME_LANG_MAP.get((language or DEFAULT_LANGUAGE).lower(), "en")
runtime_lang(language) ==
    LET sel == Lower(IF language = "" THEN DEFAULT_LANGUAGE ELSE language)
    IN  IF sel \in DOMAIN RUNTIME_LANG_MAP THEN RUNTIME_LANG_MAP[sel] ELSE "en"

VARIABLES
    \* TorqueReceiveDataView fields
    entry_routes,        \* _entry_routes: entry_id -> route record
    email_to_entry,      \* _email_to_entry: email_lower -> entry_id
    active,              \* _active
    coordinator,         \* legacy view.coordinator
    email,               \* legacy self.email
    lang,                \* legacy self.lang
    imperial,            \* legacy self.imperial
    sessions,            \* _sessions: OrderedDict, oldest first
    ttl_seconds,         \* _ttl_seconds
    max_sessions,        \* _max_sessions
    last_name_by_email,  \* _last_name_by_email
    last_name_by_id,     \* _last_name_by_id
    \* hass.data[DOMAIN]
    domain_store,        \* entry ids that have a per-entry store
    view_registered,     \* "view" in domain_store
    last_session,        \* hass.data[DOMAIN]["last_session"]
    \* TorqueCoordinator fields, for the coordinator of each entry
    cars,                \* the keys of self.cars and self.data
    tracked,             \* self.tracked: the keys "<car_id>:<short>" already created
    sensor_adder,        \* self._sensor_adder is set (None until sensor.py sets it)
    async_add_device_tracker, \* self.async_add_device_tracker is set
    \* POST handlers suspended in "await request.post()"
    pc,
    \* environment
    now,                 \* the wall clock read by _now_utc()
    \* history variables (observations, never read by the program)
    clock_stepped_back,  \* the wall clock has gone backwards at least once
    last_op,             \* the last route-table call: [op, entry, email, prev]
    reply,               \* the response sent in the last step, if any
    cache_op,            \* what the last step did to the session cache
    adder_called,        \* per entry, the (car_id, short) pairs the sensor adder was
                         \* invoked for by the last update_from_session
    adder_added          \* per entry, the pairs whose adder call returned and whose
                         \* vehicle has not been forgotten since

routerVars == <<entry_routes, email_to_entry, active, coordinator, email, lang, imperial>>
cacheVars == <<sessions, ttl_seconds, max_sessions>>
nameVars == <<last_name_by_email, last_name_by_id>>
storeVars == <<domain_store, view_registered, last_session>>
coordVars == <<cars, tracked, sensor_adder, async_add_device_tracker, adder_called,
              adder_added>>
clockVars == <<now, clock_stepped_back>>
eventVars == <<reply, cache_op>>
vars == <<routerVars, cacheVars, nameVars, storeVars, coordVars, pc, clockVars, last_op,
         eventVars>>

\* ---------------------------------------------------------------------------
\* Route table (api.py, "Routing helpers")
\* ---------------------------------------------------------------------------
Route(co, em, imp, lg) == [coordinator |-> co, email |-> em, imperial |-> imp, lang |-> lg]

\* (variant) upsert_route without the release of the entry's previous email
upsert_route_keeping(routes, index, entry_id, em, co, imp, lg) ==
    LET email_norm == Lower(Strip(em))
    IN  [entry_routes   |-> Put(routes, entry_id, Route(co, email_norm, imp, pick_lang(lg))),
         email_to_entry |-> IF email_norm # "" THEN Put(index, email_norm, entry_id) ELSE index,
         active         |-> TRUE]

\* upsert_route: the route table and email index after the call
upsert_route(routes, index, entry_id, em, co, imp, lg) ==
    LET email_norm == Lower(Strip(em))
        prev == Get(routes, entry_id)
        index1 == IF prev # None /\ prev.email # "" THEN Pop(index, prev.email) ELSE index
    IN  [entry_routes   |-> Put(routes, entry_id, Route(co, email_norm, imp, pick_lang(lg))),
         email_to_entry |-> IF email_norm # "" THEN Put(index1, email_norm, entry_id) ELSE index1,
         active         |-> TRUE]

\* (variant) remove_route leaving the email index as it is
remove_route_keeping(routes, index, act, entry_id) ==
    [entry_routes   |-> Pop(routes, entry_id),
     email_to_entry |-> index,
     active         |-> IF DOMAIN Pop(routes, entry_id) = {} THEN FALSE ELSE act]

\* remove_route: the route table, email index and active flag after the call
remove_route(routes, index, act, entry_id) ==
    LET prev == Get(routes, entry_id)
        routes1 == Pop(routes, entry_id)
    IN  [entry_routes   |-> routes1,
         email_to_entry |-> IF prev # None /\ prev.email # "" THEN Pop(index, prev.email) ELSE index,
         active         |-> IF DOMAIN routes1 = {} THEN FALSE ELSE act]

\* the legacy route _pick_route builds from the view's own fields
legacy_route == Route(coordinator, Lower(Strip(email)), imperial, lang)

\* (variant) _pick_route without the "not key" test of the single-route branch
pick_route_any_sole(em) ==
    LET key == Lower(Strip(em))
    IN  IF key # "" /\ key \in DOMAIN email_to_entry
        THEN Get(entry_routes, email_to_entry[key])
        ELSE IF Cardinality(DOMAIN entry_routes) = 1
        THEN entry_routes[CHOOSE e \in DOMAIN entry_routes : TRUE]
        ELSE IF DOMAIN entry_routes = {} /\ (coordinator # None \/ email # "")
        THEN legacy_route
        ELSE None

\* _pick_route
pick_route(em) ==
    LET key == Lower(Strip(em))
    IN  IF key # "" /\ key \in DOMAIN email_to_entry
        THEN Get(entry_routes, email_to_entry[key])
        ELSE IF key = "" /\ Cardinality(DOMAIN entry_routes) = 1
        THEN entry_routes[CHOOSE e \in DOMAIN entry_routes : TRUE]
        ELSE IF DOMAIN entry_routes = {} /\ (coordinator # None \/ email # "")
        THEN legacy_route
        ELSE None

NoReply ==
    [method |-> "", handler |-> "", status |-> 0, text |-> "", notified |-> None,
     req |-> None, route |-> None, consumer_raised |-> FALSE, faulted |-> FALSE]

NoCacheOp ==
    [cleaned |-> FALSE, ttl_evicted |-> 0, cap_evicted |-> 0, upserted |-> "", replaced |-> FALSE]

Init ==
    /\ entry_routes = <<>>
    /\ email_to_entry = <<>>
    /\ active = TRUE
    /\ coordinator = None
    /\ email = ""
    /\ lang = pick_lang(DEFAULT_LANGUAGE)
    /\ imperial = FALSE
    /\ sessions = <<>>
    /\ ttl_seconds = SESSION_TTL_SECONDS
    /\ max_sessions = MAX_SESSIONS
    /\ last_name_by_email = <<>>
    /\ last_name_by_id = <<>>
    /\ domain_store = {}
    /\ view_registered = FALSE
    /\ last_session = None
    /\ cars = [e \in Entries |-> {}]
    /\ tracked = [e \in Entries |-> {}]
    /\ sensor_adder = [e \in Entries |-> FALSE]
    /\ async_add_device_tracker = [e \in Entries |-> FALSE]
    /\ adder_called = [e \in Entries |-> {}]
    /\ adder_added = [e \in Entries |-> {}]
    /\ pc = [p \in Posts |-> "idle"]
    /\ now = 0
    /\ clock_stepped_back = FALSE
    /\ last_op = [op |-> "init", entry |-> "", email |-> "", prev |-> {}]
    /\ reply = NoReply
    /\ cache_op = NoCacheOp

\* TorqueCoordinator.__init__ and the class attributes: no vehicle, nothing
\* tracked, no callback set
NewCoordinator(e) ==
    /\ cars' = [cars EXCEPT ![e] = {}]
    /\ tracked' = [tracked EXCEPT ![e] = {}]
    /\ sensor_adder' = [sensor_adder EXCEPT ![e] = FALSE]
    /\ async_add_device_tracker' = [async_add_device_tracker EXCEPT ![e] = FALSE]
    /\ adder_called' = [adder_called EXCEPT ![e] = {}]
    /\ adder_added' = [adder_added EXCEPT ![e] = {}]

\* what last_op.prev observes: the email in the entry's route record before the
\* call, as a set that is empty when the entry had no record
PrevEmail(entry_id) ==
    IF entry_id \in DOMAIN entry_routes THEN {entry_routes[entry_id].email} ELSE {}

\* view.upsert_route(entry_id, email=..., coordinator=..., imperial=..., lang=...)
UpsertRoute(entries, emails, prefs) ==
    /\ view_registered
    /\ \E entry_id \in entries, em \in emails, pr \in prefs :
        LET r == upsert_route(entry_routes, email_to_entry, entry_id, em,
                              CoordinatorOf[entry_id], pr.imperial, pr.language)
        IN  /\ entry_routes' = r.entry_routes
            /\ email_to_entry' = r.email_to_entry
            /\ active' = r.active
            /\ last_op' = [op |-> "upsert", entry |-> entry_id, email |-> Lower(Strip(em)),
                        prev |-> PrevEmail(entry_id)]
    /\ reply' = NoReply
    /\ cache_op' = NoCacheOp
    /\ UNCHANGED <<coordinator, email, lang, imperial, cacheVars, nameVars, storeVars,
                   coordVars, pc, clockVars>>

\* view.remove_route(entry_id)
RemoveRoute(entries) ==
    /\ view_registered
    /\ \E entry_id \in entries :
        LET r == remove_route(entry_routes, email_to_entry, active, entry_id)
        IN  /\ entry_routes' = r.entry_routes
            /\ email_to_entry' = r.email_to_entry
            /\ active' = r.active
            /\ last_op' = [op |-> "remove", entry |-> entry_id, email |-> "",
                        prev |-> PrevEmail(entry_id)]
    /\ reply' = NoReply
    /\ cache_op' = NoCacheOp
    /\ UNCHANGED <<coordinator, email, lang, imperial, cacheVars, nameVars, storeVars,
                   coordVars, pc, clockVars>>

\* view.set_active(active)
SetActive ==
    /\ view_registered
    /\ \E b \in BOOLEAN :
        /\ active' = b
        /\ last_op' = [op |-> "set_active", entry |-> "", email |-> "", prev |-> {}]
    /\ reply' = NoReply
    /\ cache_op' = NoCacheOp
    /\ UNCHANGED <<entry_routes, email_to_entry, coordinator, email, lang, imperial,
                   cacheVars, nameVars, storeVars, coordVars, pc, clockVars>>

\* async_setup_entry: build (first entry) or update the shared view, create the
\* entry's coordinator, register the entry's route, activate the view
SetupEntry(entries, prefs, ttls, caps) ==
    \E e \in entries \ domain_store, ttl \in ttls, cap \in caps : \E pr \in prefs[e] :
        LET imp == pr.imperial
            lang_rt == runtime_lang(pr.language)
            r == upsert_route(entry_routes, email_to_entry, e, EntryEmail[e],
                              CoordinatorOf[e], imp, lang_rt)
        IN  /\ IF ~view_registered
               THEN /\ email' = Strip(EntryEmail[e])
                    /\ lang' = pick_lang(lang_rt)
               ELSE /\ email' = email
                    /\ lang' = lang_rt
            /\ imperial' = imp
            /\ ttl_seconds' = ttl
            /\ max_sessions' = cap
            /\ view_registered' = TRUE
            /\ domain_store' = domain_store \cup {e}
            /\ coordinator' = CoordinatorOf[e]
            /\ NewCoordinator(e)
            /\ entry_routes' = r.entry_routes
            /\ email_to_entry' = r.email_to_entry
            /\ active' = TRUE
            /\ last_op' = [op |-> "upsert", entry |-> e, email |-> Lower(Strip(EntryEmail[e])),
                            prev |-> PrevEmail(e)]
            /\ reply' = NoReply
            /\ cache_op' = NoCacheOp
            /\ UNCHANGED <<sessions, nameVars, last_session, pc, clockVars>>

\* async_unload_entry: drop the entry's store and route; detach the legacy
\* coordinator when no entry is left
UnloadEntry ==
    \E e \in domain_store :
        LET r == remove_route(entry_routes, email_to_entry, active, e)
            still_has_entries == domain_store \ {e} # {}
        IN  /\ domain_store' = domain_store \ {e}
            /\ entry_routes' = r.entry_routes
            /\ email_to_entry' = r.email_to_entry
            /\ active' = r.active
            /\ coordinator' = IF still_has_entries THEN coordinator ELSE None
            \* domain_store.pop(entry_id) lets go of the entry's coordinator
            /\ NewCoordinator(e)
            /\ last_op' = [op |-> "remove", entry |-> e, email |-> "", prev |-> PrevEmail(e)]
            /\ reply' = NoReply
            /\ cache_op' = NoCacheOp
            /\ UNCHANGED <<email, lang, imperial, cacheVars, nameVars, view_registered,
                           last_session, pc, clockVars>>

\* The route table driven through its own methods and through the entry glue
NextRouter ==
    \/ UpsertRoute(Entries, RawEmails, Prefs)
    \/ RemoveRoute(Entries)
    \/ SetActive
    \/ SetupEntry(Entries, [e \in Entries |-> Prefs], {MaxTtl}, {MaxCap})
    \/ UnloadEntry

SpecRouter == Init /\ [][NextRouter]_vars

\* ---------------------------------------------------------------------------
\* Session cache (api.py, "Housekeeping")
\* ---------------------------------------------------------------------------
Ids(s) == {s[i].id : i \in 1..Len(s)}

\* (variant) TTL phase with "if" for "while": at most one entry is popped
ttl_scan_once(s, cutoff) ==
    IF s # <<>> /\ s[1].last_seen <= cutoff THEN Tail(s) ELSE s

\* _cleanup_sessions, 1) TTL: pop the oldest entry while its last_seen <= cutoff
RECURSIVE ttl_scan(_, _)
ttl_scan(s, cutoff) ==
    IF s # <<>> /\ s[1].last_seen <= cutoff THEN ttl_scan(Tail(s), cutoff) ELSE s

\* (variant) size cap with "if" for "while": at most one entry is popped
lru_cap_once(s, cap) ==
    IF Len(s) > cap THEN Tail(s) ELSE s

\* (variant) size cap with popitem() for popitem(last=False): pops the newest
RECURSIVE lru_cap_newest(_, _)
lru_cap_newest(s, cap) ==
    IF Len(s) > cap THEN lru_cap_newest(SubSeq(s, 1, Len(s) - 1), cap) ELSE s

\* _cleanup_sessions, 2) LRU size cap: pop the oldest entry while len > max
RECURSIVE lru_cap(_, _)
lru_cap(s, cap) ==
    IF Len(s) > cap THEN lru_cap(Tail(s), cap) ELSE s

\* _cleanup_sessions at time t
cleanup_sessions(s, t, ttl, cap) == lru_cap(ttl_scan(s, t - ttl), cap)

\* OrderedDict.__setitem__: replace in place, or append a new key
set_item(s, session) ==
    IF session.id \in Ids(s)
    THEN [i \in 1..Len(s) |-> IF s[i].id = session.id THEN session ELSE s[i]]
    ELSE Append(s, session)

\* OrderedDict.move_to_end(key, last=True)
move_to_end(s, key) ==
    SelectSeq(s, LAMBDA x : x.id # key) \o SelectSeq(s, LAMBDA x : x.id = key)

\* (variant) _upsert_and_touch without move_to_end
upsert_no_touch(s, session) == set_item(s, session)

\* _upsert_and_touch
upsert_and_touch(s, session) == move_to_end(set_item(s, session), session.id)

\* ---------------------------------------------------------------------------
\* Payload parser (api.py, "Helpers" and "Core parsing"): numbers and values
\* ---------------------------------------------------------------------------
\* A float is a record: Float(n) is the finite value n/1000, Subnormal a positive
\* value below 1e-307 (100.0 divided by it overflows), NonFinite an infinity
\* or a NaN. Str(s) is a value kept as the raw string s.
Float(n) == [float |-> n]
Subnormal == [subnormal |-> TRUE]
NonFinite == [nonfinite |-> TRUE]
Str(s) == [str |-> s]

\* the raw field values of the model
Raws == {"", "10", " 10 ", "12,5", "0", "45", "90", "91", "-90", "-91", "120",
         "180", "181", "-180", "-181",
         "1e-320", "1e999", "nan", "NaN", "inf", "-Infinity", "abc"}

\* s.replace(",", ".")
Comma(s) == IF s = "12,5" THEN "12.5" ELSE s

\* float(s): the parsed literal; None stands for ValueError
float_of(s) ==
    CASE s = "10"   -> Float(10000)
      [] s = "12.5" -> Float(12500)
      [] s = "0"    -> Float(0)
      [] s = "45"   -> Float(45000)
      [] s = "90"   -> Float(90000)
      [] s = "91"   -> Float(91000)
      [] s = "-90"  -> Float(-90000)
      [] s = "-91"  -> Float(-91000)
      [] s = "180"  -> Float(180000)
      [] s = "181"  -> Float(181000)
      [] s = "-180" -> Float(-180000)
      [] s = "-181" -> Float(-181000)
      [] s = "120"  -> Float(120000)
      [] s = "1e-320" -> Subnormal
      [] s \in {"1e999", "nan", "NaN", "inf", "-Infinity"} -> NonFinite
      [] OTHER -> None

\* _parse_number on a stripped string
number_of(s) ==
    IF s = "" THEN None
    ELSE IF Lower(Comma(s)) \in {"inf", "+inf", "-inf", "infinity", "nan"} THEN None
    ELSE IF float_of(Comma(s)) = NonFinite THEN None
    ELSE float_of(Comma(s))

\* _parse_number: a finite float, or None
parse_number(raw) == number_of(Strip(raw))

\* isinstance(x, (int, float))
is_float(x) == DOMAIN x = {"float"} \/ x = Subnormal \/ x = NonFinite

\* _is_num: a float that is finite
is_num(x) == DOMAIN x = {"float"} \/ x = Subnormal

\* float(x) > 0 for a finite float
positive(x) == x = Subnormal \/ (DOMAIN x = {"float"} /\ x.float > 0)

\* (variant) _valid_lat_lon clamping a coordinate to the nearest bound
valid_coord_clamped(v, bound) ==
    IF DOMAIN v = {"float"} /\ v.float > bound THEN Float(bound)
    ELSE IF DOMAIN v = {"float"} /\ v.float < -bound THEN Float(-bound)
    ELSE v

\* _valid_lat_lon, one coordinate: None outside [-bound, bound]
valid_coord(v, bound) ==
    IF DOMAIN v = {"float"} /\ ~(-bound <= v.float /\ v.float <= bound) THEN None ELSE v

\* (variant) c * float(x) in place of c / float(x)
fdiv_times(c, x) == IF x = Subnormal THEN Subnormal ELSE Float((c * x.float) \div 1000)

\* c / float(x) for c given in thousandths and x a positive finite float
fdiv(c, x) == IF x = Subnormal THEN NonFinite ELSE Float((c * 1000) \div x.float)

\* TORQUE_CODES (const.py), the codes the model sends
TORQUE_GPS_LAT == "gpslat"
TORQUE_GPS_LON == "gpslon"
TORQUE_GPS_ALTITUDE == "gps_height"
TORQUE_GPS_ACCURACY == "gps_acc"
ENTITY_GPS == "gps"
Code(short, full, unit) == [shortName |-> short, fullName |-> full, unit |-> unit]
TORQUE_CODES ==
    [c \in {"0d", "ff1005", "ff1006", "ff1010", "ff1239",
            "ff1201", "ff1203", "ff1207", "ff1205", "ff1206", "ff1208",
            "ff5201", "ff5202", "ff5203", "ff1266", "ff1267", "ff1268"} |->
        CASE c = "0d"     -> Code("speed_obd", "Speed (OBD)", "km/h")
          [] c = "ff1005" -> Code(TORQUE_GPS_LON, "GPS Longitude", "°")
          [] c = "ff1006" -> Code(TORQUE_GPS_LAT, "GPS Latitude", "°")
          [] c = "ff1010" -> Code(TORQUE_GPS_ALTITUDE, "GPS Altitude", "m")
          [] c = "ff1239" -> Code(TORQUE_GPS_ACCURACY, "GPS Accuracy", "m")
          [] c = "ff1201" -> Code("mpg_instant", "Miles Per Gallon(Instant)", "mpg")
          [] c = "ff1203" -> Code("kpl_instant", "Kilometers Per Litre(Instant)", "kpl")
          [] c = "ff1207" -> Code("l_per_100_instant", "Litres Per 100 Kilometer(Instant)", "L/100km")
          [] c = "ff1205" -> Code("mpg_trip_avg", "Trip average MPG", "mpg")
          [] c = "ff1206" -> Code("kpl_trip_avg", "Trip average KPL", "kpl")
          [] c = "ff1208" -> Code("l_per_100_trip_avg", "Trip average Litres/100 KM", "L/100km")
          [] c = "ff5201" -> Code("mpg_long_term_avg", "Miles Per Gallon(Long Term Average)", "mpg")
          [] c = "ff5202" -> Code("kpl_long_term_avg", "Kilometers Per Litre(Long Term Average)", "kpl")
          [] c = "ff5203" -> Code("l_per_100_long_term_avg", "Litres Per 100 Kilometer(Long Term Average)", "L/100km")
          [] c = "ff1266" -> Code("trip_time_since_start", "Trip Time(Since journey start)", "s")
          [] c = "ff1267" -> Code("trip_time_stationary", "Trip time(whilst stationary)", "s")
          [] c = "ff1268" -> Code("trip_time_moving", "Trip time(whilst moving)", "s")]

\* the sensor keys of the model: "k" followed by a code of the table (one of
\* them also in upper case), and the unrecognised keys kzz1, kzz2, ...
KnownKeys == [c \in DOMAIN TORQUE_CODES |-> "k" \o c]
UnknownKey(i) == "kzz" \o ToString(i)
UnknownCode(i) == "zz" \o ToString(i)
SensorKeys == {KnownKeys[c] : c \in DOMAIN TORQUE_CODES} \cup {"kFF1203", "kzz"}
                \cup {UnknownKey(i) : i \in 1..MaxUnknown}

\* key[1:].lower() for every sensor key of the model
KeyCodes ==
    [key \in SensorKeys |->
        CASE key = "kFF1203" -> "ff1203"
          [] key = "kzz" -> "zz"
          [] \E c \in DOMAIN TORQUE_CODES : KnownKeys[c] = key ->
                CHOOSE c \in DOMAIN TORQUE_CODES : KnownKeys[c] = key
          [] OTHER -> UnknownCode(CHOOSE i \in 1..MaxUnknown : UnknownKey(i) = key)]
KeyCode(key) == KeyCodes[key]

UNKNOWN_CAP == 80
MPG_TO_L_PER_100 == 235215      \* 235.215, in thousandths

\* _LABELS_FR as _ensure_labels_fr builds it from FR_BY_KEY = {} (labels_fr is
\* optional and absent: api.py falls back to an empty table)
LABELS_FR == [k \in {} |-> ""]

\* get_label: the French label if known, else the English full name
get_label(lg, full_en) ==
    IF Lower(IF lg = "" THEN DEFAULT_LANGUAGE ELSE lg) = "fr" /\ full_en \in DOMAIN LABELS_FR
    THEN LABELS_FR[full_en]
    ELSE full_en

Meta(lg, full_en, unit, code) ==
    [name |-> get_label(lg, full_en), unit |-> unit, full_en |-> full_en, code |-> code]

\* d.setdefault(k, v)
SetDefault(d, k, v) == IF k \in DOMAIN d THEN d ELSE Put(d, k, v)

\* _parse_fields, sensor loop, value of a key of the code table: the parsed
\* number, or the raw string when it does not parse
field_value(raw) == IF parse_number(raw) # None THEN parse_number(raw) ELSE Str(raw)

\* _parse_fields, sensor loop, meta of a key of the code table
field_meta(code, lg) ==
    Meta(lg, TORQUE_CODES[code].fullName, TORQUE_CODES[code].unit, code)

\* the positions of the "k..." fields ks that carry a code of the table, and
\* those that carry an unrecognised code
KnownAt(ks) == {i \in 1..Len(ks) : KeyCode(ks[i][1]) \in DOMAIN TORQUE_CODES}
UnknownAt(ks) == {i \in 1..Len(ks) : KeyCode(ks[i][1]) \notin DOMAIN TORQUE_CODES}

\* the short name the field at position i is stored under
ShortAt(ks, i) == TORQUE_CODES[KeyCode(ks[i][1])].shortName

\* the last position of a non-empty set of positions
Last(S) == CHOOSE i \in S : \A j \in S : j <= i

\* (variant) _parse_fields storing every unrecognised field
StoredAt_uncapped(ks) == UnknownAt(ks)

\* _parse_fields, sensor loop, "if len(unknown) < _UNKNOWN_CAP": when the loop
\* reaches position i, unknown holds the distinct unrecognised codes met before
\* i, up to the cap; the field is stored when they are fewer than the cap
StoredAt(ks) ==
    {i \in UnknownAt(ks) :
        Cardinality({KeyCode(ks[j][1]) : j \in {j \in UnknownAt(ks) : j < i}}) < UNKNOWN_CAP}

\* _parse_fields, sensor loop, values and meta: the last field sent for a short
\* name wins
known_fields(ks, known, lg) ==
    [values |-> [short \in {ShortAt(ks, i) : i \in known} |->
                    field_value(ks[Last({i \in known : ShortAt(ks, i) = short})][2])],
     meta |-> [short \in {ShortAt(ks, i) : i \in known} |->
                    field_meta(KeyCode(ks[Last({i \in known : ShortAt(ks, i) = short})][1]), lg)]]

\* _parse_fields, sensor loop, unknown: the last stored field of a code wins
unknown_fields(ks, stored) ==
    [code \in {KeyCode(ks[i][1]) : i \in stored} |->
        ks[Last({i \in stored : KeyCode(ks[i][1]) = code})][2]]

\* _parse_fields, sensor loop over the "k..." fields ks in the order of the
\* payload: values, meta and unknown when the loop ends
sensor_fields(ks, lg) ==
    [values |-> known_fields(ks, KnownAt(ks), lg).values,
     meta |-> known_fields(ks, KnownAt(ks), lg).meta,
     unknown |-> unknown_fields(ks, StoredAt(ks))]

\* _parse_fields, a direct positional field (lat, lon): set when it parsed
direct_field(acc, short, v, lg, full_en, unit, code) ==
    IF v = None THEN acc
    ELSE [acc EXCEPT !.values = Put(@, short, v),
                     !.meta = SetDefault(@, short, Meta(lg, full_en, unit, code))]

\* _parse_fields, the direct lat and lon fields after the sensor loop
direct_lat_lon(acc, q, lg) ==
    direct_field(
        direct_field(acc, TORQUE_GPS_LAT, valid_coord(parse_number(q.lat), 90000),
                     lg, "GPS Latitude", "°", "ff1006"),
        TORQUE_GPS_LON, valid_coord(parse_number(q.lon), 180000),
        lg, "GPS Longitude", "°", "ff1005")

\* _parse_fields, the direct GPS fields after the sensor loop: lat, lon, then
\* alt, then acc
direct_fields(acc, q, lg) ==
    direct_field(
        direct_field(direct_lat_lon(acc, q, lg),
                     TORQUE_GPS_ALTITUDE, parse_number(q.alt), lg, "GPS Altitude", "m", "ff1010"),
        TORQUE_GPS_ACCURACY, parse_number(q.acc), lg, "GPS Accuracy", "m", "ff1239")

\* _SECONDS_TO_MIN
SECONDS_TO_MIN == {"trip_time_since_start", "trip_time_stationary", "trip_time_moving"}
\* (variant) the conversion applied whatever the unit is
to_minutes_any_unit(acc, short) ==
    /\ short \in SECONDS_TO_MIN
    /\ is_num(acc.values[short])

\* _normalize_runtime_units, the condition of the conversion
to_minutes(acc, short) ==
    /\ short \in SECONDS_TO_MIN
    /\ acc.meta[short].unit = "s"
    /\ is_num(acc.values[short])
\* _normalize_runtime_units: trip times in seconds become minutes
normalize_runtime_units(acc) ==
    [acc EXCEPT
        !.values = [k \in DOMAIN @ |->
                      IF k \in DOMAIN acc.meta /\ to_minutes(acc, k)
                      THEN IF @[k] = Subnormal THEN Subnormal ELSE Float(@[k].float \div 60)
                      ELSE @[k]],
        !.meta = [k \in DOMAIN @ |->
                      IF to_minutes(acc, k) THEN [@[k] EXCEPT !.unit = "min"] ELSE @[k]]]

\* _synth_economy._add: fill a short name that holds no finite number
add(acc, short, val, unit, full_en, lg) ==
    IF short \in DOMAIN acc.values /\ is_num(acc.values[short]) THEN acc
    ELSE [acc EXCEPT !.values = Put(@, short, val),
                     !.meta = SetDefault(@, short, Meta(lg, full_en, unit, ""))]

\* (variant) _synth_economy deriving L/100km from kpl, or kpl from L/100km,
\* whenever the given one is positive, over whatever is there
synth_context_overwriting(acc, lg, kpl, l100, mpg, kpl_short, l100_short, kpl_full, l100_full) ==
    IF is_num(kpl) /\ positive(kpl)
    THEN [acc EXCEPT !.values = Put(@, l100_short, fdiv(100000, kpl)),
                     !.meta = SetDefault(@, l100_short, Meta(lg, l100_full, "L/100km", ""))]
    ELSE IF is_num(l100) /\ positive(l100)
    THEN [acc EXCEPT !.values = Put(@, kpl_short, fdiv(100000, l100)),
                     !.meta = SetDefault(@, kpl_short, Meta(lg, kpl_full, "kpl", ""))]
    ELSE acc

\* _synth_economy, one context: kpl, l100 and mpg are the values found under
\* the three short names
synth_context(acc, lg, kpl, l100, mpg, kpl_short, l100_short, kpl_full, l100_full) ==
    IF is_num(kpl) /\ ~is_num(l100) /\ positive(kpl)
    THEN add(acc, l100_short, fdiv(100000, kpl), "L/100km", l100_full, lg)
    ELSE IF is_num(l100) /\ ~is_num(kpl) /\ positive(l100)
    THEN add(acc, kpl_short, fdiv(100000, l100), "kpl", kpl_full, lg)
    ELSE IF is_num(mpg) /\ ~is_num(l100) /\ positive(mpg)
    THEN add(acc, l100_short, fdiv(MPG_TO_L_PER_100, mpg), "L/100km", l100_full, lg)
    ELSE acc

\* _synth_economy, the long-term context
synth_long_term(acc, lg) ==
    synth_context(acc, lg,
                  Get(acc.values, "kpl_long_term_avg"), Get(acc.values, "l_per_100_long_term_avg"),
                  Get(acc.values, "mpg_long_term_avg"),
                  "kpl_long_term_avg", "l_per_100_long_term_avg",
                  "Kilometers Per Litre(Long Term Average)",
                  "Litres Per 100 Kilometer(Long Term Average)")

\* _synth_economy, the trip-average context
synth_trip(acc, lg) ==
    synth_context(acc, lg,
                  Get(acc.values, "kpl_trip_avg"), Get(acc.values, "l_per_100_trip_avg"),
                  Get(acc.values, "mpg_trip_avg"),
                  "kpl_trip_avg", "l_per_100_trip_avg",
                  "Trip average KPL", "Trip average Litres/100 KM")

\* _synth_economy, the instant context
synth_instant(acc, lg) ==
    synth_context(acc, lg,
                  Get(acc.values, "kpl_instant"), Get(acc.values, "l_per_100_instant"),
                  Get(acc.values, "mpg_instant"),
                  "kpl_instant", "l_per_100_instant",
                  "Kilometers Per Litre(Instant)", "Litres Per 100 Kilometer(Instant)")

\* _synth_economy: long term, then trip average, then instant
synth_economy(acc, lg) == synth_instant(synth_trip(synth_long_term(acc, lg), lg), lg)

\* _parse_fields, final scrub: a float that is not finite becomes None
scrub_non_finite(acc) ==
    [acc EXCEPT !.values = [k \in DOMAIN @ |->
                              IF is_float(@[k]) /\ @[k] = NonFinite THEN None ELSE @[k]]]

\* _parse_fields, values/meta/unknown of a payload
parse_values(q, lg) ==
    scrub_non_finite(
        synth_economy(
            normalize_runtime_units(
                direct_fields(sensor_fields(q.k, lg), q, lg)),
            lg))

\* ---------------------------------------------------------------------------
\* Payload parser (api.py, "Core parsing"): identity, profile name, annotations
\* ---------------------------------------------------------------------------
\* a payload: the identity fields, the language override, the "k..." sensor
\* fields as <<key, raw>> pairs in the order sent, the direct lat, lon, alt and
\* acc fields
\* (a field that is not sent reads as "")
Req(eml, session, id, name, lg) ==
    [eml |-> eml, session |-> session, id |-> id, name |-> name, lang |-> lg,
     k |-> <<>>, lat |-> "", lon |-> "", alt |-> "", acc |-> ""]

\* the payload q with sensor fields k and direct fields lat, lon
WithFields(q, k, lat, lon) == [q EXCEPT !.k = k, !.lat = lat, !.lon = lon]

\* the payload q with direct fields alt and acc
WithAltAcc(q, alt, acc) == [q EXCEPT !.alt = alt, !.acc = acc]

\* a request without any field (POST with no readable body)
EmptyReq == Req("", "", "", "", "")

\* _extract_profile_name: the first non-empty stripped candidate field
extract_profile_name(q) == Strip(q.name)

\* (variant) name memory lookup by email first, then by vehicle id
remembered_name_email_first(vehicle_id, eml, by_email, by_id) ==
    IF eml # "" /\ eml \in DOMAIN by_email
    THEN by_email[eml]
    ELSE IF vehicle_id # "" /\ vehicle_id \in DOMAIN by_id
    THEN by_id[vehicle_id]
    ELSE ""

\* _parse_fields, name memory lookup:
\* (vehicle_id and by_id.get(vehicle_id)) or (eml and by_email.get(eml)) or ""
remembered_name(vehicle_id, eml, by_email, by_id) ==
    IF vehicle_id # "" /\ vehicle_id \in DOMAIN by_id /\ by_id[vehicle_id] # ""
    THEN by_id[vehicle_id]
    ELSE IF eml # "" /\ eml \in DOMAIN by_email
    THEN by_email[eml]
    ELSE ""

\* (variant) profile name resolution without the "Vehicle <id>" fallback
resolved_name_no_fallback(name0, remembered, session_id) ==
    IF (name0 = "" \/ is_poor_name(name0)) /\ remembered # "" /\ ~is_poor_name(remembered)
    THEN remembered
    ELSE name0

\* _parse_fields, profile name: a missing or poor name is replaced by a good
\* remembered one; a name still empty becomes "Vehicle <session_id[:6]>"
resolved_name(name0, remembered, session_id) ==
    IF (name0 = "" \/ is_poor_name(name0)) /\ remembered # "" /\ ~is_poor_name(remembered)
    THEN remembered
    ELSE IF name0 = "" THEN "Vehicle " \o Prefix6(session_id)
    ELSE name0

\* (variant) a session record converted to imperial units at ingestion
session_record_converting(session_id, vehicle_id, eml, profile_name, lg, imperial_flag, t, fields) ==
    [id |-> session_id,
     last_seen |-> t,
     profile |-> [Name  |-> profile_name,
                  Id    |-> IF vehicle_id # "" THEN vehicle_id ELSE slugify(profile_name),
                  Email |-> eml],
     values |-> fields.values,
     meta |-> [k \in DOMAIN fields.meta |->
                 IF imperial_flag /\ fields.meta[k].unit = "km/h"
                 THEN [fields.meta[k] EXCEPT !.unit = "mph"] ELSE fields.meta[k]],
     unknown |-> fields.unknown,
     lang |-> lg,
     unit_preference |-> IF imperial_flag THEN "imperial" ELSE "metric"]

\* _parse_fields, the session record it builds
session_record(session_id, vehicle_id, eml, profile_name, lg, imperial_flag, t, fields) ==
    [id |-> session_id,
     last_seen |-> t,
     profile |-> [Name  |-> profile_name,
                  Id    |-> IF vehicle_id # "" THEN vehicle_id ELSE slugify(profile_name),
                  Email |-> eml],
     values |-> fields.values,
     meta |-> fields.meta,
     unknown |-> fields.unknown,
     lang |-> lg,
     unit_preference |-> IF imperial_flag THEN "imperial" ELSE "metric"]

\* _parse_fields, last lines: remember a good name by email and by vehicle id
remember_name(session, by_email, by_id) ==
    [session |-> session,
     last_name_by_email |->
        IF ~is_poor_name(session.profile.Name) /\ session.profile.Email # ""
        THEN Put(by_email, session.profile.Email, session.profile.Name) ELSE by_email,
     last_name_by_id |->
        IF ~is_poor_name(session.profile.Name) /\ session.profile.Id # ""
        THEN Put(by_id, session.profile.Id, session.profile.Name) ELSE by_id]

\* (variant) _parse_fields testing the session id as sent, not stripped
parse_fields_unstripped(q, lg, imperial_override, t, by_email, by_id) ==
    IF q.session = ""
    THEN [session |-> None, last_name_by_email |-> by_email, last_name_by_id |-> by_id]
    ELSE remember_name(
            session_record(
                Strip(q.session), Strip(q.id), Strip(q.eml),
                resolved_name(extract_profile_name(q),
                              remembered_name(Strip(q.id), Strip(q.eml), by_email, by_id),
                              Strip(q.session)),
                lg, imperial_override, t, parse_values(q, lg)),
            by_email, by_id)

\* _parse_fields: the session (None when the session id is missing) and the
\* name memories after the call
parse_fields(q, lg, imperial_override, t, by_email, by_id) ==
    IF Strip(q.session) = ""
    THEN [session |-> None, last_name_by_email |-> by_email, last_name_by_id |-> by_id]
    ELSE remember_name(
            session_record(
                Strip(q.session), Strip(q.id), Strip(q.eml),
                resolved_name(extract_profile_name(q),
                              remembered_name(Strip(q.id), Strip(q.eml), by_email, by_id),
                              Strip(q.session)),
                lg, imperial_override, t, parse_values(q, lg)),
            by_email, by_id)

\* ---------------------------------------------------------------------------
\* HTTP handlers (api.py, "HTTP handlers")
\* ---------------------------------------------------------------------------
Response(m, h, st, tx, co) ==
    [method |-> m, handler |-> h, status |-> st, text |-> tx, notified |-> co,
     req |-> None, route |-> None, consumer_raised |-> FALSE, faulted |-> FALSE]

\* what can go wrong inside a handler invocation: nothing, an exception while
\* the fields are read (await request.post(), dict(request.query)), an
\* exception raised by the coordinator's update_from_session
Faults == {"none", "fields", "consumer"}

\* the result of the handler body: the view's state after it, what it answers
\* (text), whom it notified, the id it inserted, the route it resolved, whether
\* the consumer raised, and whether an exception reached the handler's except
Result(s, by_email, by_id, ls, tx, co, up, route, craised, raised) ==
    [sessions |-> s, last_name_by_email |-> by_email, last_name_by_id |-> by_id,
     last_session |-> ls, text |-> tx, notified |-> co, upserted |-> up,
     route |-> route, consumer_raised |-> craised, raised |-> raised]

\* (variant) _async_publish_data without its try/except around the call
publish_data_unguarded(co, consumer_raises) ==
    [notified |-> co,
     consumer_raised |-> co # None /\ consumer_raises,
     raised |-> co # None /\ consumer_raises]

\* _async_publish_data: calls update_from_session of the coordinator if there is
\* one; an exception of the call is logged and swallowed
publish_data(co, consumer_raises) ==
    [notified |-> co,
     consumer_raised |-> co # None /\ consumer_raises,
     raised |-> FALSE]

\* (variant) first lines of get/post with _cleanup_sessions ahead of the check
on_arrival_cleanup_first(act, s, t, ttl, cap) ==
    [proceed |-> act, sessions |-> cleanup_sessions(s, t, ttl, cap)]

\* get/post, first lines: the inactive check, then _cleanup_sessions.
\* proceed = FALSE is the 404 return.
on_arrival(act, s, t, ttl, cap) ==
    IF ~act
    THEN [proceed |-> FALSE, sessions |-> s]
    ELSE [proceed |-> TRUE, sessions |-> cleanup_sessions(s, t, ttl, cap)]

\* coordinator.py, _is_non_finite: a float that is not finite, or a string that
\* spells one
is_non_finite(v) ==
    \/ v = NonFinite
    \/ DOMAIN v = {"str"} /\ Lower(Strip(v.str)) \in {"inf", "+inf", "-inf", "infinity", "nan"}

\* coordinator.py, update_from_session, first lines: the non-finite values of
\* the session it is handed are set to None in place
update_from_session(session) ==
    [session EXCEPT !.values = [k \in DOMAIN @ |->
                                  IF is_non_finite(@[k]) THEN None ELSE @[k]]]

\* coordinator.py, update_from_session: car_id = profile.Id or slugify(car_name)
car_id(session) ==
    IF session.profile.Id # "" THEN session.profile.Id
    ELSE slugify(IF session.profile.Name # "" THEN session.profile.Name ELSE "Vehicle")

\* str.startswith of Python
StartsWith(s, pre) == Len(s) >= Len(pre) /\ SubSeq(s, 1, Len(pre)) = pre

\* coordinator.py, _is_textual_sensor: the name ends with status, state or mode,
\* or contains "état" or "statut" (no label of the code table has a capital
\* letter inside such a word, so Lower matters to none of them)
is_textual_sensor(name) ==
    /\ name # ""
    /\ \/ \E suf \in {"status", "state", "mode"} :
            /\ Len(Lower(Strip(name))) >= Len(suf)
            /\ SubSeq(Lower(Strip(name)), Len(Lower(Strip(name))) - Len(suf) + 1,
                      Len(Lower(Strip(name)))) = suf
       \/ \E sub \in {"état", "statut"} :
            \E i \in 1..(Len(Lower(Strip(name))) - Len(sub) + 1) :
                SubSeq(Lower(Strip(name)), i, i + Len(sub) - 1) = sub

\* coordinator.py, _is_creatable_sensor: not the GPS coordinates, not a sensor
\* without unit unless textual, not a sensor whose name is its short name
is_creatable_sensor(short, meta) ==
    /\ short \notin {TORQUE_GPS_LAT, TORQUE_GPS_LON}
    /\ ~(Strip(meta.unit) = ""
          /\ ~is_textual_sensor(Strip(IF meta.name # "" THEN meta.name ELSE short)))
    /\ Strip(IF meta.name # "" THEN meta.name ELSE short) # short

\* f"{car_id}:{short}", the key of self.tracked
tracked_key(car, short) == car \o ":" \o short

\* update_from_session, device tracker: f"{car_id}:{ENTITY_GPS}" is tracked
\* when the session has both coordinates, the key is new and the callback is set
tracker_added(trk, has_tracker, session) ==
    IF /\ TORQUE_GPS_LAT \in DOMAIN session.values
       /\ TORQUE_GPS_LON \in DOMAIN session.values
       /\ tracked_key(car_id(session), ENTITY_GPS) \notin trk
       /\ has_tracker
    THEN trk \cup {tracked_key(car_id(session), ENTITY_GPS)}
    ELSE trk

\* update_from_session, sensor loop: the short names self._sensor_adder is
\* invoked with, the creatable sensors of the session whose key is not tracked
adder_invoked(trk, has_adder, session) ==
    IF has_adder
    THEN {short \in DOMAIN session.meta :
            /\ is_creatable_sensor(short, session.meta[short])
            /\ tracked_key(car_id(session), short) \notin trk}
    ELSE {}

\* update_from_session, sensor loop: self.tracked.add(tracked_key) after each
\* adder call that returned; a call that raised is logged and its key left out
sensors_added(trk, has_adder, adder_raises, session) ==
    IF adder_raises
    THEN trk
    ELSE trk \cup {tracked_key(car_id(session), short) :
                      short \in adder_invoked(trk, has_adder, session)}

\* update_from_session of the coordinator of entry e on the session it was
\* handed; fault = "adder" makes the sensor adder raise
UpdateFromSession(e, session, fault) ==
    /\ cars' = [cars EXCEPT ![e] = @ \cup {car_id(session)}]
    /\ tracked' = [tracked EXCEPT ![e] =
            sensors_added(tracker_added(@, async_add_device_tracker[e], session),
                          sensor_adder[e], fault = "adder", session)]
    /\ adder_called' = [x \in Entries |->
            IF x = e
            THEN {<<car_id(session), short>> :
                    short \in adder_invoked(
                        tracker_added(tracked[e], async_add_device_tracker[e], session),
                        sensor_adder[e], session)}
            ELSE {}]
    /\ adder_added' = [adder_added EXCEPT ![e] =
            IF fault = "adder" THEN @ ELSE @ \cup adder_called'[e]]
    /\ UNCHANGED <<sensor_adder, async_add_device_tracker>>

\* _async_publish_data as the coordinators see it: update_from_session on the
\* coordinator that was notified and did not raise, nothing otherwise
Publish(r, fault) ==
    IF r.notified # None /\ ~r.consumer_raised
    THEN UpdateFromSession(r.notified.entry, r.last_session, fault)
    ELSE /\ adder_called' = [x \in Entries |-> {}]
         /\ UNCHANGED <<cars, tracked, sensor_adder, async_add_device_tracker, adder_added>>

\* the session object after _async_publish_data: the one the coordinator has
\* written to when it was called and did not raise
published_session(session, pub) ==
    IF pub.notified # None /\ ~pub.consumer_raised
    THEN update_from_session(session)
    ELSE session

\* get/post after _upsert_and_touch: the outcome of _async_publish_data; last_session
\* is set on its last line, OK! is answered after it
handle_published(s, route, parsed, pub) ==
    Result(upsert_and_touch(s, published_session(parsed.session, pub)),
           parsed.last_name_by_email, parsed.last_name_by_id,
           IF pub.raised THEN last_session ELSE published_session(parsed.session, pub),
           IF pub.raised THEN "" ELSE "OK!",
           pub.notified, parsed.session.id, route, pub.consumer_raised, pub.raised)

\* get/post after _parse_fields: IGNORED without a session, else
\* _upsert_and_touch, _async_publish_data and OK!
handle_parsed(s, route, parsed, fault) ==
    IF parsed.session = None
    THEN Result(s, parsed.last_name_by_email, parsed.last_name_by_id, last_session,
                "IGNORED", None, "", route, FALSE, FALSE)
    ELSE handle_published(s, route, parsed,
                          publish_data(route.coordinator, fault = "consumer"))

\* (variant) get/post falling back to the view's own defaults without a route
handle_route_default(s, q, route, fault) ==
    handle_parsed(s, IF route = None THEN legacy_route ELSE route,
        parse_fields(q, pick_lang(IF q.lang # "" THEN q.lang
                                  ELSE IF route = None THEN lang ELSE route.lang),
                     IF route = None THEN imperial ELSE route.imperial,
                     now, last_name_by_email, last_name_by_id),
        fault)

\* get/post after _pick_route: IGNORED without a route, else language and parsing
handle_route(s, q, route, fault) ==
    IF route = None
    THEN Result(s, last_name_by_email, last_name_by_id, last_session,
                "IGNORED", None, "", None, FALSE, FALSE)
    ELSE handle_parsed(s, route,
            parse_fields(q, pick_lang(IF q.lang # "" THEN q.lang ELSE route.lang),
                         route.imperial, now, last_name_by_email, last_name_by_id),
            fault)

\* get/post once the fields q are being read: route selection, language,
\* parsing, cache insert, publication. s is the cache as _cleanup_sessions left
\* it. An exception while the fields are read leaves everything as it is.
handle_fields(s, q, fault) ==
    IF fault = "fields"
    THEN Result(s, last_name_by_email, last_name_by_id, last_session,
                "", None, "", None, FALSE, TRUE)
    ELSE handle_route(s, q, pick_route(Strip(q.eml)), fault)

\* the handler result of a step that has not handled any fields yet
NoHandling(s) ==
    Result(s, last_name_by_email, last_name_by_id, last_session,
           "", None, "", None, FALSE, FALSE)

\* (variant) get/post without the outer try/except: the exception leaves the handler
handler_response_unguarded(m, p, q, r) ==
    [Response(m, p, IF r.raised THEN 0 ELSE 200, r.text, r.notified)
        EXCEPT !.req = q, !.route = r.route,
               !.consumer_raised = r.consumer_raised, !.faulted = r.raised]

\* get/post, the response of a handler that got past the inactive check: the
\* text of the body, or 500 Error from the outer "except Exception"
handler_response(m, p, q, r) ==
    [Response(m, p, IF r.raised THEN 500 ELSE 200,
              IF r.raised THEN "Error" ELSE r.text, r.notified)
        EXCEPT !.req = q, !.route = r.route,
               !.consumer_raised = r.consumer_raised, !.faulted = r.raised]

\* history record of a handler step: pre is the cache before the step, cleaned
\* the cache after _cleanup_sessions (pre itself when the step did not clean up),
\* r the handler result
CacheOp(did_cleanup, pre, cleaned, r) ==
    [cleaned     |-> did_cleanup,
     ttl_evicted |-> IF did_cleanup
                     THEN Len(pre) - Len(ttl_scan(pre, now - ttl_seconds)) ELSE 0,
     cap_evicted |-> IF did_cleanup
                     THEN Len(ttl_scan(pre, now - ttl_seconds)) - Len(cleaned) ELSE 0,
     upserted    |-> r.upserted,
     replaced    |-> r.upserted # "" /\ r.upserted \in Ids(cleaned)]

\* get/post, the effect of a handler step that went through handle_fields:
\* cleaned is the cache the fields were handled on, r the result of handle_fields
Complete(m, p, q, did_cleanup, cleaned, r, fault) ==
    /\ sessions' = r.sessions
    /\ last_name_by_email' = r.last_name_by_email
    /\ last_name_by_id' = r.last_name_by_id
    /\ last_session' = r.last_session
    /\ Publish(r, fault)
    /\ reply' = handler_response(m, p, q, r)
    /\ cache_op' = CacheOp(did_cleanup, sessions, cleaned, r)

\* get/post, the 404 return of the inactive view
NotFound(m, p, a) ==
    /\ reply' = Response(m, p, 404, "Not Found", None)
    /\ cache_op' = NoCacheOp
    /\ sessions' = a.sessions

\* get() on the query q, a being the result of its first lines
GetStep(q, a, faults) ==
    IF ~a.proceed
    THEN NotFound("GET", "", a) /\ UNCHANGED <<nameVars, last_session, coordVars>>
    ELSE \E fault \in faults :
            Complete("GET", "", q, TRUE, a.sessions, handle_fields(a.sessions, q, fault),
                     fault)

\* post() up to the await, a being the result of its first lines
PostStep(p, a) ==
    IF ~a.proceed
    THEN NotFound("POST", p, a) /\ UNCHANGED pc
    ELSE /\ sessions' = a.sessions
         /\ pc' = [pc EXCEPT ![p] = "post_body"]
         /\ reply' = NoReply
         /\ cache_op' = CacheOp(TRUE, sessions, a.sessions, NoHandling(a.sessions))

\* async get(): no await suspends it (update_from_session of TorqueCoordinator
\* is a coroutine without awaits), so the whole handler is one step
HandleGet(reqs, faults) ==
    /\ view_registered
    /\ \E q \in reqs :
        GetStep(q, on_arrival(active, sessions, now, ttl_seconds, max_sessions), faults)
    /\ UNCHANGED <<routerVars, ttl_seconds, max_sessions, domain_store, view_registered,
                   pc, clockVars, last_op>>

\* async post(), up to "await request.post()": inactive check and cleanup
HandlePostBegin(p) ==
    /\ view_registered
    /\ pc[p] = "idle"
    /\ PostStep(p, on_arrival(active, sessions, now, ttl_seconds, max_sessions))
    /\ UNCHANGED <<routerVars, ttl_seconds, max_sessions, nameVars, storeVars, coordVars,
                   clockVars, last_op>>

\* async post(), after the form has been read: the rest of the handler
HandlePostBody(p, reqs, faults) ==
    /\ pc[p] = "post_body"
    /\ \E q \in reqs :
        \E fault \in faults :
            Complete("POST", p, q, FALSE, sessions, handle_fields(sessions, q, fault),
                     fault)
    /\ pc' = [pc EXCEPT ![p] = "idle"]
    /\ UNCHANGED <<routerVars, ttl_seconds, max_sessions, domain_store, view_registered,
                   clockVars, last_op>>

\* (variant) head() written like get(): inactive check, then _cleanup_sessions
HandleHeadLikeGet ==
    /\ view_registered
    /\ reply' = Response("HEAD", "", IF active THEN 200 ELSE 404, "", None)
    /\ sessions' = on_arrival(active, sessions, now, ttl_seconds, max_sessions).sessions
    /\ cache_op' = NoCacheOp
    /\ UNCHANGED <<routerVars, ttl_seconds, max_sessions, nameVars, storeVars, coordVars, pc,
                   clockVars, last_op>>

\* async head(): 200, nothing else
HandleHead ==
    /\ view_registered
    /\ reply' = Response("HEAD", "", 200, "", None)
    /\ cache_op' = NoCacheOp
    /\ UNCHANGED <<routerVars, cacheVars, nameVars, storeVars, coordVars, pc, clockVars,
                   last_op>>

\* (variant) forget_vehicle dropping the cached sessions of the vehicle too
ForgetVehicle_purging ==
    \E e \in domain_store :
        \E vehicle_key \in cars[e] \cup {"v0"} :
            /\ cars' = [cars EXCEPT ![e] = @ \ {vehicle_key}]
            /\ tracked' = [tracked EXCEPT ![e] =
                    {k \in @ : ~StartsWith(k, vehicle_key \o ":")}]
            /\ adder_called' = [x \in Entries |-> {}]
            /\ adder_added' = [adder_added EXCEPT ![e] = {pr \in @ : pr[1] # vehicle_key}]
            /\ UNCHANGED <<sensor_adder, async_add_device_tracker>>
            /\ sessions' = SelectSeq(sessions, LAMBDA x : car_id(x) # vehicle_key)
            /\ last_op' = [op |-> "forget", entry |-> e, email |-> "", prev |-> {}]
            /\ reply' = NoReply
            /\ cache_op' = NoCacheOp
            /\ UNCHANGED <<routerVars, ttl_seconds, max_sessions, nameVars, storeVars, pc,
                           clockVars>>

\* async_remove_config_entry_device: forget_vehicle(vkey) on the coordinator of
\* an entry, for a vehicle it holds or one it does not; cars.pop, data.pop and
\* the tracked keys that start with f"{vehicle_key}:"
ForgetVehicle ==
    \E e \in domain_store :
        \E vehicle_key \in cars[e] \cup {"v0"} :
            /\ cars' = [cars EXCEPT ![e] = @ \ {vehicle_key}]
            /\ tracked' = [tracked EXCEPT ![e] =
                    {k \in @ : ~StartsWith(k, vehicle_key \o ":")}]
            /\ adder_called' = [x \in Entries |-> {}]
            /\ adder_added' = [adder_added EXCEPT ![e] = {pr \in @ : pr[1] # vehicle_key}]
            /\ UNCHANGED <<sensor_adder, async_add_device_tracker>>
            /\ last_op' = [op |-> "forget", entry |-> e, email |-> "", prev |-> {}]
            /\ reply' = NoReply
            /\ cache_op' = NoCacheOp
            /\ UNCHANGED <<routerVars, cacheVars, nameVars, storeVars, pc, clockVars>>

\* sensor.py, async_setup_entry: the sensors restored from the entity registry
\* (an input: pairs of vehicle id and short name) are marked tracked, then
\* set_sensor_adder
SensorSetup(entries, restorable) ==
    /\ \E e \in entries \cap domain_store : \E restored \in SUBSET restorable :
        /\ ~sensor_adder[e]
        /\ tracked' = [tracked EXCEPT ![e] =
                @ \cup {tracked_key(pr[1], pr[2]) : pr \in restored}]
        /\ sensor_adder' = [sensor_adder EXCEPT ![e] = TRUE]
    /\ reply' = NoReply
    /\ cache_op' = NoCacheOp
    /\ UNCHANGED <<routerVars, cacheVars, nameVars, storeVars, cars,
                   async_add_device_tracker, adder_called, adder_added, pc, clockVars,
                   last_op>>

\* device_tracker.py, async_setup_entry: the callback is set and the
\* devices of the device registry (an input: vehicle ids) are marked tracked
DeviceTrackerSetup(entries, devices) ==
    /\ \E e \in entries \cap domain_store : \E restored \in SUBSET devices :
        /\ ~async_add_device_tracker[e]
        /\ async_add_device_tracker' = [async_add_device_tracker EXCEPT ![e] = TRUE]
        /\ tracked' = [tracked EXCEPT ![e] =
                @ \cup {tracked_key(car, ENTITY_GPS) : car \in restored}]
    /\ reply' = NoReply
    /\ cache_op' = NoCacheOp
    /\ UNCHANGED <<routerVars, cacheVars, nameVars, storeVars, cars, sensor_adder,
                   adder_called, adder_added, pc, clockVars, last_op>>

\* diagnostics.py: the keys whose values are redacted, and what replaces them
REDACT_KEYS ==
    {"Email", "email", "eml", "session", "id", "Id", "token", "access_token",
     "refresh_token", "client_secret", "api_key", "apikey", "x-api-key",
     "vin", "VIN", "vehicle_id", "VehicleId",
     TORQUE_GPS_LAT, TORQUE_GPS_LON, TORQUE_GPS_ALTITUDE, TORQUE_GPS_ACCURACY,
     "lat", "lon", "latitude", "longitude", "bearing", "heading"}
REDACTED == "**REDACTED**"

\* async_redact_data on a mapping of strings: the value of a key to redact is
\* replaced unless it is empty
redact_strings(m) ==
    [k \in DOMAIN m |-> IF k \in REDACT_KEYS /\ m[k] # "" THEN REDACTED ELSE m[k]]

\* async_redact_data on a mapping of values or of meta records: the value of a
\* key to redact is replaced unless it is None
redact_values(m) ==
    [k \in DOMAIN m |-> IF k \in REDACT_KEYS /\ m[k] # None THEN [str |-> REDACTED] ELSE m[k]]

\* _build_session_snapshot: {} without a session, else its id, last_seen, lang,
\* profile, values, meta and unknown, redacted (no mapping of the model is long
\* enough for _truncate_mapping to cut it)
build_session_snapshot(session) ==
    IF session = None
    THEN [k \in {} |-> None]
    ELSE [id        |-> IF session.id # "" THEN REDACTED ELSE session.id,
          last_seen |-> session.last_seen,
          lang      |-> session.lang,
          profile   |-> redact_strings(session.profile),
          values    |-> redact_values(session.values),
          meta      |-> redact_values(session.meta),
          unknown   |-> redact_values(session.unknown)]

\* _collect_view_runtime: the flags and counters of the shared view
collect_view_runtime ==
    IF ~view_registered
    THEN [k \in {} |-> None]
    ELSE [imperial_units          |-> imperial,
          language_runtime        |-> lang,
          email_filter_configured |-> email # "",
          sessions_in_memory      |-> Len(sessions),
          ttl_seconds             |-> ttl_seconds,
          max_sessions            |-> max_sessions]

\* async_get_config_entry_diagnostics(hass, entry) for a loaded entry: the
\* redacted configuration, the view's runtime, the counters of the entry's
\* coordinator, the last session the view received (of any entry) and the
\* vehicles of the coordinator (their ids: the model keeps the keys of cars)
get_config_entry_diagnostics(e) ==
    [config_entry |-> redact_strings([email |-> EntryEmail[e]]),
     runtime      |-> collect_view_runtime,
     coordinator  |-> [cars_count        |-> Cardinality(cars[e]),
                       tracked_count     |-> Cardinality(tracked[e]),
                       exposed_data_keys |-> cars[e]],
     last_session |-> build_session_snapshot(last_session),
     vehicles     |-> cars[e]]

\* the wall clock advances
Tick(limit) ==
    /\ now < limit
    /\ now' = now + 1
    /\ reply' = NoReply
    /\ cache_op' = NoCacheOp
    /\ UNCHANGED <<routerVars, cacheVars, nameVars, storeVars, coordVars, pc,
                   clock_stepped_back, last_op>>

\* the wall clock is set back (datetime.now is not monotonic)
TickBack ==
    /\ now > 0
    /\ now' = now - 1
    /\ clock_stepped_back' = TRUE
    /\ reply' = NoReply
    /\ cache_op' = NoCacheOp
    /\ UNCHANGED <<routerVars, cacheVars, nameVars, storeVars, coordVars, pc, last_op>>

\* ---------------------------------------------------------------------------
\* Specifications
\* ---------------------------------------------------------------------------
MetricFr == [imperial |-> FALSE, language |-> "fr"]
ImperialEn == [imperial |-> TRUE, language |-> "EN"]

\* One tenant, one POST at a time, every session id, a clock that can step back,
\* options reloaded at run time, no exception: the session cache under
\* sequential requests
CacheRequests == {Req("a@x", sid, "v1", "", "") : sid \in SessionIds \cup {""}}

NextCache ==
    \/ SetupEntry({"A"}, [e \in Entries |-> {MetricFr}], 1..MaxTtl, 1..MaxCap)
    \/ UnloadEntry
    \/ HandleGet(CacheRequests, {"none"})
    \/ HandlePostBegin("p1")
    \/ HandlePostBody("p1", CacheRequests, {"none"})
    \/ Tick(MaxTime)
    \/ TickBack

SpecCache == Init /\ [][NextCache]_vars

\* Two tenants, overlapping POSTs, exceptions: the endpoint as the program runs it
EndpointRequests ==
    {Req("a@x", "101", "v1", "", ""), Req("a@x", "102", "v1", "", ""),
     Req("b@x", "102", "v1", "", ""), Req("", "101", "v1", "", ""),
     Req("a@x", "", "v1", "", "")}

EndpointPrefs == [e \in Entries |-> IF e = "A" THEN {MetricFr} ELSE {ImperialEn}]

Next ==
    \/ SetupEntry(Entries, EndpointPrefs, {1}, {1})
    \/ UnloadEntry
    \/ HandleGet(EndpointRequests, Faults)
    \/ \E p \in Posts : HandlePostBegin(p)
    \/ \E p \in Posts : HandlePostBody(p, EndpointRequests, Faults)
    \/ HandleHead

Spec == Init /\ [][Next]_vars

\* Two tenants (A metric/fr, B imperial/en), sequential GETs whose payloads carry
\* sensor fields, direct GPS fields and language overrides: the payload parser
SensorPayloads ==
    {<<>>,
     <<<<"k0d", "10">>>>,
     <<<<"k0d", "abc">>>>,
     <<<<"kff1203", "10">>>>,
     <<<<"kff1203", "nan">>>>,
     <<<<"kff1203", "1e-320">>>>,
     <<<<"kff1203", "1e999">>>>,
     <<<<"kff1207", " 10 ">>>>,
     <<<<"kff1201", "12,5">>>>,
     <<<<"kff1266", "120">>>>,
     <<<<"kff1006", "91">>, <<"kzz", "abc">>>>,
     <<<<"kff1203", "10">>, <<"kFF1203", "0">>>>,
     <<<<"kff1203", "10">>, <<"kff1207", "inf">>>>}

ParserRequests ==
    {WithFields(Req(e, "101", "", "", ""), k, "", "") :
        e \in {"a@x", "b@x"}, k \in SensorPayloads}
    \cup {WithFields(Req(e, "101", "", "", ""), <<>>, lat, "10") :
        e \in {"a@x", "b@x"}, lat \in {"45", "91", "NaN"}}
    \cup {WithFields(Req(e, sid, "", "", ""), k, "45", "10") :
        e \in {"a@x", "b@x"}, sid \in {"", " "}, k \in {<<>>, <<<<"k0d", "10">>>>}}
    \cup {Req(e, "101", "", "", lg) : e \in {"a@x", "b@x"}, lg \in {"EN", "de", " "}}

NextParser ==
    \/ SetupEntry(Entries, EndpointPrefs, {1}, {1})
    \/ HandleGet(ParserRequests, {"none"})

SpecParser == Init /\ [][NextParser]_vars

\* One tenant, sequential GETs whose payloads differ in profile name, vehicle
\* id and sender (an empty sender goes to the sole route): the profile name
\* resolution and the last-good-name memory
NameRequests ==
    {Req(e, "101", id, name, "") :
        e \in {"a@x", ""}, id \in {"", "v1"}, name \in {"", " ", "Clio", "Zoe", "Vehicle"}}
    \cup {Req("a@x", "", "v1", "Clio", "")}

NextNames ==
    \/ SetupEntry({"A"}, EndpointPrefs, {1}, {1})
    \/ HandleGet(NameRequests, {"none"})

SpecNames == Init /\ [][NextNames]_vars

\* One tenant, sequential GETs whose payloads differ in their sensor fields and
\* direct GPS fields: values, meta and unknown of the parsed session
BaseReq == Req("a@x", "101", "", "", "")

\* a sensor field, or nothing when the raw value is "-" (field not sent)
Field(key, raw) == IF raw = "-" THEN <<>> ELSE << <<key, raw>> >>

\* the kpl, L/100km and mpg fields of one context
EconomyPayloads(kpl_key, l100_key, mpg_key, raws, mpg_raws) ==
    {Field(kpl_key, kpl) \o Field(l100_key, l100) \o Field(mpg_key, mpg) :
        kpl \in raws, l100 \in raws, mpg \in mpg_raws}

\* n unrecognised sensor fields followed by a known one
ManyUnknown(n) == [i \in 1..n |-> <<UnknownKey(i), "10">>] \o << <<"k0d", "10">> >>

ValueRequests ==
    \* direct lat/lon, in and out of range, alone
    {WithFields(BaseReq, <<>>, lat, lon) :
        lat \in {"", "45", "90", "91", "-90", "-91"},
        lon \in {"", "10", "180", "181", "-180", "-181"}}
    \* direct fields next to the sensor field of the same short name
    \cup {WithFields(BaseReq, k, "10", "10") :
        k \in {<< <<"kff1006", "45">> >>, << <<"kff1005", "45">> >>,
               << <<"kff1006", "abc">> >>, << <<"kff1006", "45">>, <<"kff1005", "45">> >>}}
    \cup {WithAltAcc(WithFields(BaseReq, k, "", ""), alt, acc) :
        k \in {<<>>, << <<"kff1010", "45">> >>, << <<"kff1239", "45">> >>},
        alt \in {"", "120", "abc"}, acc \in {"", "10"}}
    \* trip durations
    \cup {WithFields(BaseReq, Field(key, raw), "", "") :
        key \in {"kff1266", "kff1267", "kff1268", "k0d"}, raw \in {"120", "0", "abc"}}
    \* fuel economy, the three contexts
    \cup {WithFields(BaseReq, k, "", "") :
        k \in EconomyPayloads("kff1203", "kff1207", "kff1201",
                              {"-", "10", "abc", "0", "1e-320"}, {"-", "12,5", "abc"})}
    \cup {WithFields(BaseReq, k, "", "") :
        k \in EconomyPayloads("kff1206", "kff1208", "kff1205", {"-", "10", "abc"}, {"-", "12,5"})}
    \cup {WithFields(BaseReq, k, "", "") :
        k \in EconomyPayloads("kff5202", "kff5203", "kff5201", {"-", "10", "abc"}, {"-", "12,5"})}
    \* unrecognised codes up to and beyond the cap
    \cup {WithFields(BaseReq, ManyUnknown(n), "", "") :
        n \in {1, UNKNOWN_CAP - 1, UNKNOWN_CAP} \cup (UNKNOWN_CAP + 1)..MaxUnknown}

NextValues ==
    \/ SetupEntry({"A"}, EndpointPrefs, {1}, {1})
    \/ HandleGet(ValueRequests, {"none"})

SpecValues == Init /\ [][NextValues]_vars

\* ---------------------------------------------------------------------------
\* Claims about the route table
\* ---------------------------------------------------------------------------
NonEmptyEmails == {Lower(Strip(em)) : em \in RawEmails} \ {""}

\* C1: after upsert_route(B, e) with a non-empty e, resolve(e) is B's route, and
\* it stays what it is under every call that is neither on B nor a registration
\* of e by someone else (in particular under remove_route/upsert_route of a
\* tenant that B superseded for e).
C1_ResolveStable ==
    [][ /\ \A e \in NonEmptyEmails :
            (last_op'.op = "upsert" /\ last_op'.email = e)
            => pick_route(e)' = entry_routes'[last_op'.entry]
        /\ \A e \in NonEmptyEmails, B \in Entries :
            ( /\ e \in DOMAIN email_to_entry
              /\ email_to_entry[e] = B
              /\ pick_route(e) = Get(entry_routes, B)
              /\ last_op'.entry # B
              /\ ~(last_op'.op = "upsert" /\ last_op'.email = e) )
            => pick_route(e)' = pick_route(e) ]_vars

\* C2: at most one registered route holds a given non-empty email, in the
\* email index and in the route records alike.
C2_OneHolderPerEmail ==
    \A e \in NonEmptyEmails :
        Cardinality({t \in DOMAIN entry_routes : entry_routes[t].email = e}) <= 1

\* C3: the endpoint is active iff at least one route is registered.
C3_ActiveIffRoutes == active <=> (DOMAIN entry_routes # {})

\* One tenant set up or registered with any language, supported or not, GETs
\* with and without a language override, the route removed (legacy fallback)
LangRequests == {Req("a@x", "101", "v1", "Clio", lg) : lg \in {"", "EN", "de", " ", "FR"}}

NextLang ==
    \/ SetupEntry({"A"}, [e \in Entries |-> Prefs], {1}, {1})
    \/ UpsertRoute({"A"}, {"a@x"}, Prefs)
    \/ RemoveRoute({"A"})
    \/ HandleGet(LangRequests, {"none"})

SpecLang == Init /\ [][NextLang]_vars

\* One tenant whose sensor and device tracker platforms get set up, sequential
\* GETs for two vehicles with sensor and GPS fields, a sensor adder that may
\* raise, vehicles forgotten, the entry unloaded and set up again
SensorRequests ==
    {WithFields(Req("a@x", "101", id, "Clio", ""), k, "", "") :
        id \in {"v1", "v1:x"}, k \in {<< <<"k0d", "10">> >>, << <<"kff1203", "10">> >>}}
    \cup {WithFields(Req("a@x", "101", "v1", "Clio", ""), <<>>, "45", "10")}

NextSensors ==
    \/ SetupEntry({"A"}, [e \in Entries |-> {MetricFr}], {1}, {1})
    \/ UnloadEntry
    \/ SensorSetup({"A"}, {<<"v1", "speed_obd">>})
    \/ DeviceTrackerSetup({"A"}, {"v1"})
    \/ HandleGet(SensorRequests, {"none", "adder"})
    \/ ForgetVehicle

SpecSensors == Init /\ [][NextSensors]_vars

\* One tenant with max_sessions fixed, GETs and overlapping POSTs for every
\* session id, a clock that only advances: the session cache under interleaved
\* handlers
NextOverlap ==
    \/ SetupEntry({"A"}, [e \in Entries |-> {MetricFr}], {MaxTtl}, {1})
    \/ HandleGet(CacheRequests, {"none"})
    \/ \E p \in Posts : HandlePostBegin(p)
    \/ \E p \in Posts : HandlePostBody(p, CacheRequests, {"none"})
    \/ Tick(MaxTime)

SpecOverlap == Init /\ [][NextOverlap]_vars

\* One tenant whose route is also changed through the view's own methods, GET,
\* POST and HEAD requests, a consumer that may raise, vehicles forgotten, a clock
\* that advances: everything that runs next to the session cache
FrameRequests == {Req("a@x", sid, "v1", "Clio", "") : sid \in {"101", "102"}}

NextFrame ==
    \/ SetupEntry({"A"}, [e \in Entries |-> {MetricFr}], {1}, {1})
    \/ UnloadEntry
    \/ UpsertRoute({"A"}, {"a@x", ""}, {MetricFr})
    \/ RemoveRoute({"A"})
    \/ SetActive
    \/ HandleGet(FrameRequests, {"none", "consumer"})
    \/ HandlePostBegin("p1")
    \/ HandlePostBody("p1", FrameRequests, {"none", "consumer"})
    \/ HandleHead
    \/ ForgetVehicle
    \/ Tick(MaxTime)

SpecFrame == Init /\ [][NextFrame]_vars

\* ---------------------------------------------------------------------------
\* Claims about the session cache
\* ---------------------------------------------------------------------------
SortedByLastSeen(s) == \A i \in 1..(Len(s) - 1) : s[i].last_seen <= s[i + 1].last_seen
NonExpired(s, cutoff) == SelectSeq(s, LAMBDA x : x.last_seen > cutoff)
Others(s, id) == SelectSeq(s, LAMBDA x : x.id # id)
Min(a, b) == IF a < b THEN a ELSE b

\* C4: in every step in which _cleanup_sessions has run, the cache it leaves
\* holds at most max_sessions entries (one more once the same handler has
\* inserted a new id after it), whatever the cache held before and whatever
\* max_sessions was set to at run time.
C4_CleanupCap ==
    [][ cache_op'.cleaned =>
            Len(sessions') <= max_sessions'
                + (IF cache_op'.upserted # "" /\ ~cache_op'.replaced THEN 1 ELSE 0) ]_vars

\* a cleanup that evicted two entries for capacity (max_sessions was lowered)
C4_Witness ==
    /\ cache_op.cleaned
    /\ cache_op.upserted = ""
    /\ cache_op.cap_evicted >= 2
    /\ Len(sessions) = max_sessions

\* C5: as long as the clock has never stepped back, every entry left in the
\* cache by a step in which _cleanup_sessions ran at time now has
\* last_seen >= now - ttl_seconds.
C5_CleanupFresh ==
    [][ (cache_op'.cleaned /\ ~clock_stepped_back') =>
            \A i \in 1..Len(sessions') : sessions'[i].last_seen >= now' - ttl_seconds' ]_vars

\* a cleanup under a monotone clock that expired some entries and kept others
C5_Witness ==
    /\ cache_op.cleaned
    /\ cache_op.upserted = ""
    /\ cache_op.ttl_evicted >= 1
    /\ sessions # <<>>
    /\ ~clock_stepped_back

\* C6: _upsert_and_touch stores the new record under its id exactly once, at the
\* most-recently-used end, leaves the other entries in their order, and leaves
\* the size unchanged when the id was already cached; and a cleanup never evicts
\* the most-recently-used entry while it keeps any other.
C6_UpsertTouches ==
    [][ /\ cache_op'.upserted # "" =>
            LET pre == IF cache_op'.cleaned
                       THEN cleanup_sessions(sessions, now, ttl_seconds, max_sessions)
                       ELSE sessions
                n == Len(sessions')
            IN  /\ n >= 1
                /\ sessions'[n] = last_session'
                /\ sessions'[n].id = cache_op'.upserted
                /\ Cardinality({i \in 1..n : sessions'[i].id = cache_op'.upserted}) = 1
                /\ SubSeq(sessions', 1, n - 1) = Others(pre, sessions'[n].id)
                /\ cache_op'.replaced => n = Len(pre)
        /\ (cache_op'.cleaned /\ cache_op'.upserted = "" /\ sessions # <<>>
                /\ sessions[Len(sessions)].id \notin Ids(sessions'))
            => sessions' = <<>> ]_vars

\* a cached id has just been inserted again, next to another entry
C6_Witness ==
    /\ cache_op.replaced
    /\ Len(sessions) >= 2
    /\ sessions[Len(sessions)].id = cache_op.upserted

QueryEmails == RawEmails \cup {"z@x"}
SoleRoute == entry_routes[CHOOSE e \in DOMAIN entry_routes : TRUE]
HeldEmails == {entry_routes[t].email : t \in DOMAIN entry_routes}

C9_NoAcceptWithoutRoute ==
    [][ (reply'.method \in {"GET", "POST"} /\ DOMAIN entry_routes = {}) =>
            /\ reply'.text # "OK!"
            /\ cache_op'.upserted = ""
            /\ reply'.status = 404 /\ reply'.text = "Not Found" ]_vars

\* C10: a GET or POST arriving while the view is inactive is answered
\* 404 Not Found whatever its fields, and changes neither the session cache nor
\* the route table nor the name memory; the POST does not go on to read its body.
Arrives(p) ==
    /\ pc[p] = "idle"
    /\ \/ pc'[p] # "idle"
       \/ (reply'.method = "POST" /\ reply'.handler = p)

C10_InactiveIs404 ==
    [][ (~active /\ (reply'.method = "GET" \/ \E p \in Posts : Arrives(p))) =>
            /\ reply'.status = 404
            /\ reply'.text = "Not Found"
            /\ pc' = pc
            /\ UNCHANGED <<sessions, entry_routes, email_to_entry, active,
                           last_name_by_email, last_name_by_id>> ]_vars

\* a POST has just been answered 404 while the cache still holds sessions
C10_Witness ==
    /\ ~active
    /\ reply.method = "POST"
    /\ reply.status = 404
    /\ sessions # <<>>

\* ---------------------------------------------------------------------------
\* Claims about the outcome of a request
\* ---------------------------------------------------------------------------
\* the step completes a GET or a POST whose fields were read
Handled == reply'.method \in {"GET", "POST"} /\ reply'.req # None /\ ~reply'.faulted
\* the cache the fields of the completed request were handled on
CleanedCache ==
    IF reply'.method = "GET"
    THEN cleanup_sessions(sessions, now, ttl_seconds, max_sessions)
    ELSE sessions

\* C11: a GET or POST completing on an active endpoint whose sender email
\* resolves to no route is answered 200 IGNORED, leaves the session cache as
\* its cleanup left it, notifies no consumer and leaves the name memory and
\* the last published session alone.
C11_UnroutedIgnored ==
    [][ \A q \in EndpointRequests :
            (Handled /\ active /\ reply'.req = q /\ pick_route(Strip(q.eml)) = None) =>
                /\ reply'.status = 200
                /\ reply'.text = "IGNORED"
                /\ reply'.notified = None
                /\ cache_op'.upserted = ""
                /\ sessions' = CleanedCache
                /\ UNCHANGED <<last_name_by_email, last_name_by_id, last_session>> ]_vars

\* two tenants are registered and a request that carries a session id but no
\* email has just been ignored
C11_Witness ==
    /\ active
    /\ Cardinality(DOMAIN entry_routes) = 2
    /\ reply.text = "IGNORED"
    /\ reply.req # None
    /\ reply.req.eml = ""
    /\ reply.req.session # ""
    /\ reply.route = None

\* C13: when the consumer of the resolved route raises while it is notified,
\* the request is still answered 200 OK!, the parsed session is in the cache
\* at the most-recently-used end, and the route table is unchanged.
C13_ConsumerFailureAcked ==
    [][ reply'.consumer_raised =>
            /\ reply'.status = 200
            /\ reply'.text = "OK!"
            /\ reply'.notified # None
            /\ sessions' # <<>>
            /\ sessions'[Len(sessions')].id = reply'.req.session
            /\ sessions'[Len(sessions')] = last_session'
            /\ UNCHANGED <<entry_routes, email_to_entry, active>> ]_vars

\* a consumer has just raised on a session that joined another one in the cache
C13_Witness ==
    /\ reply.consumer_raised
    /\ reply.text = "OK!"
    /\ Len(sessions) >= 2
    /\ sessions[Len(sessions)].id = reply.req.session

\* C14: every GET or POST answered OK! notifies exactly one consumer, the
\* coordinator of the registered route its sender email resolves to (the owner
\* of the email, or the sole route for a request without email).
C14_OneConsumerNotified ==
    [][ \A q \in EndpointRequests :
            (reply'.text = "OK!" /\ reply'.req = q) =>
                /\ reply'.notified # None
                /\ reply'.notified = pick_route(Strip(q.eml)).coordinator
                /\ \E t \in DOMAIN entry_routes :
                    /\ entry_routes[t].coordinator = reply'.notified
                    /\ Strip(q.eml) # "" => entry_routes[t].email = Lower(Strip(q.eml)) ]_vars

\* C15: a HEAD request is answered 200 whether the endpoint is active or not,
\* and changes nothing: no cleanup and no insert in the session cache, route
\* table, active flag, name memory and suspended POSTs as before.
C15_HeadIsPure ==
    [][ reply'.method = "HEAD" =>
            /\ reply'.status = 200
            /\ UNCHANGED <<sessions, entry_routes, email_to_entry, active,
                           last_name_by_email, last_name_by_id, last_session, pc>> ]_vars

\* a HEAD has just been answered on an inactive endpoint whose cache holds
\* more sessions than max_sessions allows
C15_Witness ==
    /\ reply.method = "HEAD"
    /\ reply.status = 200
    /\ ~active
    /\ Len(sessions) > max_sessions

\* C16: the activity check, cleanup, route resolution, parsing and cache
\* insert of one handler invocation are one uninterrupted step: while an
\* invocation is between its cleanup and its route resolution, no other handler
\* and no route-table update changes the cache, the route table, the active
\* flag or the name memory.
C16_HandlerIsOneStep ==
    [][ \A p \in Posts :
            (pc[p] = "post_body" /\ pc'[p] = "post_body") =>
                UNCHANGED <<sessions, entry_routes, email_to_entry, active,
                            last_name_by_email, last_name_by_id>> ]_vars

\* C17: every GET or POST ends with exactly one of 200 'OK!', 200 'IGNORED',
\* 404 'Not Found' and 500 'Error', and a fault raised inside the handler is
\* answered 500 'Error'.
C17_FourOutcomes ==
    reply.method \in {"GET", "POST"} =>
        /\ <<reply.status, reply.text>> \in
               {<<200, "OK!">>, <<200, "IGNORED">>,
                <<404, "Not Found">>, <<500, "Error">>}
        /\ reply.faulted => reply.status = 500 /\ reply.text = "Error"

C17_Witness ==
    /\ reply.method \in {"GET", "POST"}
    /\ reply.faulted
    /\ reply.status = 500

\* ---------------------------------------------------------------------------
\* Claims about the payload parser
\* ---------------------------------------------------------------------------
\* C12: a payload whose session id is missing, empty or whitespace-only is
\* rejected whole whatever else it carries (200 'IGNORED', nothing inserted,
\* nobody notified, name memory unchanged), and a payload with a session id
\* whose sender resolves to a route is accepted whatever defect its other
\* fields have.
C12_OnlySessionIdRejects ==
    [][ (Handled /\ active /\ pick_route(Strip(reply'.req.eml)) # None) =>
            IF Strip(reply'.req.session) = ""
            THEN /\ reply'.status = 200
                 /\ reply'.text = "IGNORED"
                 /\ reply'.notified = None
                 /\ cache_op'.upserted = ""
                 /\ sessions' = CleanedCache
                 /\ UNCHANGED <<last_name_by_email, last_name_by_id, last_session>>
            ELSE /\ reply'.status = 200
                 /\ reply'.text = "OK!"
                 /\ last_session'.id = Strip(reply'.req.session) ]_vars

\* a whitespace-only session id with valid fields was ignored, and a payload
\* with an unparsable sensor value was accepted
C12_Witness ==
    /\ reply.method = "GET"
    /\ reply.text = "IGNORED"
    /\ reply.req # None
    /\ reply.req.session = " "
    /\ reply.req.k # <<>>
    /\ last_session # None
    /\ "speed_obd" \in DOMAIN last_session.values
    /\ last_session.values["speed_obd"] = Str("abc")

\* the session _parse_fields returned to the handler that has just answered
ParsedSession ==
    parse_fields(reply'.req, last_session'.lang, reply'.route.imperial, now,
                 last_name_by_email, last_name_by_id).session

\* C18: no value in the values map of a parsed session is non-finite, whether
\* it was given as a number or as a string such as "nan" or "inf".
C18_ValuesFinite ==
    [][ (Handled /\ reply'.text = "OK!") =>
            \A k \in DOMAIN ParsedSession.values :
                ~is_non_finite(ParsedSession.values[k]) ]_vars

\* what _parse_fields returns for the same fields under the other preference
OtherPreference ==
    parse_fields(reply'.req, last_session'.lang, ~reply'.route.imperial, now,
                 last_name_by_email, last_name_by_id)

\* session a, parsed under preference imperial_flag, and session b, parsed under
\* the other one, differ in the unit_preference annotation and in nothing else
AnnotationOnly(a, b, imperial_flag) ==
    /\ a.unit_preference = IF imperial_flag THEN "imperial" ELSE "metric"
    /\ b.unit_preference = IF imperial_flag THEN "metric" ELSE "imperial"
    /\ [b EXCEPT !.unit_preference = a.unit_preference] = a

\* C19: parsing the same fields with the other unit preference gives the same
\* session except for the unit_preference annotation: values, meta, unknown
\* and profile are identical, and so is the name memory.
C19_UnitPreferenceIsAnnotation ==
    [][ (Handled /\ reply'.text = "OK!") =>
            /\ AnnotationOnly(ParsedSession, OtherPreference.session, reply'.route.imperial)
            /\ OtherPreference.last_name_by_email = last_name_by_email'
            /\ OtherPreference.last_name_by_id = last_name_by_id' ]_vars

\* an imperial tenant's session with a speed in km/h
C19_Witness ==
    /\ reply.text = "OK!"
    /\ last_session.unit_preference = "imperial"
    /\ "speed_obd" \in DOMAIN last_session.values
    /\ last_session.values["speed_obd"] = Float(10000)
    /\ last_session.meta["speed_obd"].unit = "km/h"

\* C20: an accepted session carries the resolved route's unit preference, and
\* its language is the request override when one is given and supported, else
\* the resolved route's language.
C20_RoutePreferenceAndLanguage ==
    [][ (Handled /\ reply'.text = "OK!") =>
            /\ last_session'.unit_preference =
                   IF reply'.route.imperial THEN "imperial" ELSE "metric"
            /\ last_session'.lang =
                   IF Lower(Strip(reply'.req.lang)) \in DOMAIN RUNTIME_LANG_MAP
                   THEN RUNTIME_LANG_MAP[Lower(Strip(reply'.req.lang))]
                   ELSE reply'.route.lang ]_vars

\* C21: every session produced by the parser has a non-empty profile name and
\* a non-empty id, whatever the payload (with a session id) and whatever the
\* last-good-name memory holds.
C21_NameAndIdNonEmpty ==
    /\ \A i \in 1..Len(sessions) :
            sessions[i].profile.Name # "" /\ sessions[i].id # ""
    /\ last_session # None =>
            last_session.profile.Name # "" /\ last_session.id # ""

\* a payload without a name fell back to "Vehicle <id>" although the memory
\* holds a name for another sender and another vehicle
C21_Witness ==
    /\ reply.text = "OK!"
    /\ reply.req.name \in {"", " "}
    /\ last_session.profile.Name \in FallbackNames
    /\ DOMAIN last_name_by_email # {}
    /\ DOMAIN last_name_by_id # {}

\* a GET or POST has just been answered OK!
Accepted == reply.method \in {"GET", "POST"} /\ reply.text = "OK!"

\* values, meta and unknown of the accepted payload after the sensor loop of
\* _parse_fields, after the direct GPS fields, and as _parse_fields returned them
SensorStage == sensor_fields(reply.req.k, last_session.lang)
DirectStage == direct_fields(SensorStage, reply.req, last_session.lang)
ParsedValues == parse_values(reply.req, last_session.lang)

\* C22: a direct positional field (lat, lon, alt, acc) sets its well-known
\* value only when the sensor loop has not populated that short name; a value
\* from the code table is never replaced by the direct field.
C22_DirectFieldFillsGapsOnly ==
    Accepted =>
        \A short \in {TORQUE_GPS_LAT, TORQUE_GPS_LON,
                      TORQUE_GPS_ALTITUDE, TORQUE_GPS_ACCURACY} :
            short \in DOMAIN SensorStage.values =>
                ParsedValues.values[short] = SensorStage.values[short]

\* the direct coordinate raw reads as a number within [-bound, bound]
InRange(raw, bound) ==
    /\ parse_number(raw) # None
    /\ -bound <= parse_number(raw).float
    /\ parse_number(raw).float <= bound

\* values holds the direct coordinate raw under short when it is in range, and
\* nothing under short when it is not
CoordinateAsSent(values, short, raw, bound) ==
    IF InRange(raw, bound)
    THEN short \in DOMAIN values /\ values[short] = parse_number(raw)
    ELSE short \notin DOMAIN values

\* C23: a direct latitude outside [-90, 90] or a direct longitude outside
\* [-180, 180] contributes no value (never a clamped bound), each coordinate
\* judged on its own; a value exactly on a bound is accepted.
C23_CoordinateBounds ==
    (Accepted /\ reply.req.k = <<>>) =>
        /\ CoordinateAsSent(ParsedValues.values, TORQUE_GPS_LAT, reply.req.lat, 90000)
        /\ CoordinateAsSent(ParsedValues.values, TORQUE_GPS_LON, reply.req.lon, 180000)
        /\ last_session.values = ParsedValues.values

\* a latitude out of range next to a longitude exactly on its bound
C23_Witness ==
    /\ Accepted
    /\ reply.req.lat = "91"
    /\ reply.req.lon = "-180"
    /\ TORQUE_GPS_LAT \notin DOMAIN last_session.values
    /\ last_session.values[TORQUE_GPS_LON] = Float(-180000)

\* the normalization of before into after converted the trip durations that
\* were in seconds and left everything else as it was
ConvertsOnlySeconds(before, after) ==
    /\ DOMAIN after.values = DOMAIN before.values
    /\ \A short \in DOMAIN before.values :
            IF /\ short \in {"trip_time_since_start", "trip_time_stationary",
                             "trip_time_moving"}
               /\ before.meta[short].unit = "s"
               /\ is_num(before.values[short])
            THEN /\ after.values[short] = Float(before.values[short].float \div 60)
                 /\ after.meta[short].unit = "min"
            ELSE /\ after.values[short] = before.values[short]
                 /\ after.meta[short] = before.meta[short]

\* C24: the seconds-to-minutes normalization is idempotent (a second pass
\* changes no value and no unit) and converts only the three trip durations
\* whose unit is still seconds.
C24_NormalizeIdempotent ==
    Accepted =>
        /\ normalize_runtime_units(normalize_runtime_units(DirectStage))
               = normalize_runtime_units(DirectStage)
        /\ ConvertsOnlySeconds(DirectStage, normalize_runtime_units(DirectStage))

\* a trip duration of 120 s is stored as 2 min
C24_Witness ==
    /\ Accepted
    /\ "trip_time_moving" \in DOMAIN last_session.values
    /\ last_session.values["trip_time_moving"] = Float(2000)
    /\ last_session.meta["trip_time_moving"].unit = "min"

\* values, meta and unknown of the accepted payload as _synth_economy received
\* them, and as it left them
BeforeSynth == normalize_runtime_units(DirectStage)
AfterSynth == synth_economy(BeforeSynth, last_session.lang)

\* after holds every finite number of before unchanged, and differs from before
\* only under short names that were absent or held no finite number
OnlyFillsGaps(before, after) ==
    /\ DOMAIN before \subseteq DOMAIN after
    /\ \A short \in DOMAIN before :
            is_num(before[short]) => after[short] = before[short]
    /\ \A short \in DOMAIN after :
            (short \in DOMAIN before /\ after[short] # before[short])
                => ~is_num(before[short])

\* C25: fuel-economy synthesis never changes a value that is already a finite
\* number, in any of the three contexts and for any combination of kpl,
\* L/100km and mpg inputs; it only adds short names that were absent or held no
\* number.
C25_SynthesisFillsGapsOnly ==
    Accepted => OnlyFillsGaps(BeforeSynth.values, AfterSynth.values)

\* kpl sent as a number next to an unparsable L/100km: the latter was derived
C25_Witness ==
    /\ Accepted
    /\ reply.req.k = << <<"kff1203", "10">>, <<"kff1207", "abc">> >>
    /\ last_session.values["kpl_instant"] = Float(10000)
    /\ last_session.values["l_per_100_instant"] = Float(10000)

\* the (kpl, L/100km) short names of the three contexts
EconomyContexts ==
    {<<"kpl_instant", "l_per_100_instant">>,
     <<"kpl_trip_avg", "l_per_100_trip_avg">>,
     <<"kpl_long_term_avg", "l_per_100_long_term_avg">>}

\* values holds, under short, 100 divided by the finite number given
HundredOver(values, short, given) ==
    /\ short \in DOMAIN values
    /\ DOMAIN given = {"float"}
    /\ given.float # 0
    /\ values[short] = Float(100000000 \div given.float)

\* sent holds a finite number under given and nothing under other
OnlyOneSent(sent, given, other) ==
    /\ given \in DOMAIN sent
    /\ is_num(sent[given])
    /\ other \notin DOMAIN sent

\* C26 as stated: in each context, when exactly one of kpl and L/100km is sent
\* as a finite number and the other is absent, the parsed session holds both,
\* the derived one being 100 divided by the given one.
C26_DerivedFromAnyFinite ==
    Accepted =>
        \A c \in EconomyContexts :
            /\ OnlyOneSent(SensorStage.values, c[1], c[2]) =>
                    /\ ParsedValues.values[c[1]] = SensorStage.values[c[1]]
                    /\ HundredOver(ParsedValues.values, c[2], SensorStage.values[c[1]])
            /\ OnlyOneSent(SensorStage.values, c[2], c[1]) =>
                    /\ ParsedValues.values[c[2]] = SensorStage.values[c[2]]
                    /\ HundredOver(ParsedValues.values, c[1], SensorStage.values[c[2]])

\* the number given is greater than zero and 100 divided by it is finite
Derivable(given) == DOMAIN given = {"float"} /\ given.float > 0

\* C26: in each context, when exactly one of kpl and L/100km is sent as a
\* finite number greater than zero whose quotient 100/x is finite, and the
\* other is absent, the parsed session holds both, the derived one being 100
\* divided by the given one; a given value that is zero derives nothing.
C26_DerivedFromPositive ==
    Accepted =>
        \A c \in EconomyContexts :
            /\ (OnlyOneSent(SensorStage.values, c[1], c[2])
                    /\ Derivable(SensorStage.values[c[1]])) =>
                    /\ ParsedValues.values[c[1]] = SensorStage.values[c[1]]
                    /\ HundredOver(ParsedValues.values, c[2], SensorStage.values[c[1]])
            /\ (OnlyOneSent(SensorStage.values, c[2], c[1])
                    /\ Derivable(SensorStage.values[c[2]])) =>
                    /\ ParsedValues.values[c[2]] = SensorStage.values[c[2]]
                    /\ HundredOver(ParsedValues.values, c[1], SensorStage.values[c[2]])
            /\ (OnlyOneSent(SensorStage.values, c[1], c[2])
                    /\ SensorStage.values[c[1]] = Float(0)
                    /\ "mpg_instant" \notin DOMAIN SensorStage.values
                    /\ "mpg_trip_avg" \notin DOMAIN SensorStage.values
                    /\ "mpg_long_term_avg" \notin DOMAIN SensorStage.values) =>
                    c[2] \notin DOMAIN ParsedValues.values

\* only the trip-average L/100km was sent: the session holds the derived kpl
C26_Witness ==
    /\ Accepted
    /\ reply.req.k = << <<"kff1208", "10">> >>
    /\ last_session.values["l_per_100_trip_avg"] = Float(10000)
    /\ last_session.values["kpl_trip_avg"] = Float(10000)

\* C27: the unknown map of a session never holds more than 80 entries, in the
\* cache or as handed to the consumer; a payload with more unrecognised fields is
\* still answered "OK!", its excess fields are dropped and every known code it
\* carries is populated.
C27_UnknownCapped ==
    /\ \A i \in 1..Len(sessions) :
            Cardinality(DOMAIN sessions[i].unknown) <= UNKNOWN_CAP
    /\ last_session # None =>
            Cardinality(DOMAIN last_session.unknown) <= UNKNOWN_CAP
    /\ (reply.method = "GET" /\ reply.status = 200 /\ reply.route # None
            /\ Len(reply.req.k) > UNKNOWN_CAP) =>
            /\ reply.text = "OK!"
            /\ DOMAIN last_session.unknown =
                    {KeyCode(UnknownKey(i)) : i \in 1..UNKNOWN_CAP}
            /\ \A i \in KnownAt(reply.req.k) :
                    /\ ShortAt(reply.req.k, i) \in DOMAIN last_session.values
                    /\ last_session.values[ShortAt(reply.req.k, i)] = Float(10000)

\* 81 unrecognised fields and the speed were sent: 80 are kept, the 81st is
\* dropped, the speed is there
C27_Witness ==
    /\ Accepted
    /\ Len(reply.req.k) = UNKNOWN_CAP + 2
    /\ Cardinality(DOMAIN last_session.unknown) = UNKNOWN_CAP
    /\ KeyCode(UnknownKey(UNKNOWN_CAP + 1)) \notin DOMAIN last_session.unknown
    /\ last_session.values["speed_obd"] = Float(10000)

\* ---------------------------------------------------------------------------
\* Claims about what removes cache entries
\* ---------------------------------------------------------------------------
\* the ids _cleanup_sessions evicts from the cache as it is
Evicted == Ids(sessions) \ Ids(cleanup_sessions(sessions, now, ttl_seconds, max_sessions))

\* C28: a session id leaves the cache only in a step that ran _cleanup_sessions,
\* and only if that cleanup evicted it (TTL or capacity); every step that is not
\* a GET or POST handler (upsert_route, remove_route, set_active, setting up or
\* unloading an entry, HEAD, forget_vehicle) leaves the cache as it is, and a
\* handler that dispatched to a consumer still holds the session it inserted.
C28_OnlyCleanupRemoves ==
    [][ /\ (Ids(sessions) \ Ids(sessions'))
                \subseteq (IF cache_op'.cleaned THEN Evicted ELSE {})
        /\ (reply'.method \notin {"GET", "POST"} /\ pc' = pc) => sessions' = sessions
        /\ reply'.notified # None => cache_op'.upserted \in Ids(sessions') ]_vars

\* the tenant's route has been removed and its vehicle forgotten: the session it
\* uploaded is still cached
C28_Witness ==
    /\ last_op.op = "forget"
    /\ cars["A"] = {}
    /\ DOMAIN entry_routes = {}
    /\ sessions # <<>>
    /\ sessions[1].profile.Email = "a@x"
    /\ sessions[1].profile.Id = "v1"

\* C29: the TTL phase of a cleanup evicts only entries whose last_seen is
\* strictly older than now - ttl_seconds.
C29_TtlEvictsStrictlyOlder ==
    [][ cache_op'.cleaned =>
            \A i \in 1..cache_op'.ttl_evicted :
                sessions[i].last_seen < now - ttl_seconds ]_vars

\* C30: whatever the clock did, every entry left in the cache by a step in
\* which _cleanup_sessions ran at time now has last_seen >= now - ttl_seconds.
C30_CleanupFreshAnyClock ==
    [][ cache_op'.cleaned =>
            \A i \in 1..Len(sessions') : sessions'[i].last_seen >= now' - ttl_seconds' ]_vars

\* ---------------------------------------------------------------------------
\* Claims about the route table under re-registration
\* ---------------------------------------------------------------------------
\* C31: when upsert_route is called for a registered tenant T that owns email e1
\* in the index, with another email e2 or with none, e1 leaves the index and
\* resolve(e1) is no longer T's route; resolve(e2) is T's new route when e2 is
\* not empty, no index key maps to T when it is; the set of registered tenants
\* is as before and at most one index key maps to T.
C31_ReRegistrationReleases ==
    [][ \A T \in Entries, e1 \in NonEmptyEmails :
            ( /\ last_op'.op = "upsert"
              /\ last_op'.entry = T
              /\ T \in DOMAIN entry_routes
              /\ e1 \in DOMAIN email_to_entry
              /\ email_to_entry[e1] = T
              /\ last_op'.email # e1 )
            => /\ e1 \notin DOMAIN email_to_entry'
               /\ pick_route(e1)' # entry_routes'[T]
               /\ \A e2 \in NonEmptyEmails :
                    last_op'.email = e2 => pick_route(e2)' = entry_routes'[T]
               /\ {k \in DOMAIN email_to_entry' : email_to_entry'[k] = T}
                    = (IF last_op'.email # "" THEN {last_op'.email} ELSE {})
               /\ DOMAIN entry_routes' = DOMAIN entry_routes ]_vars

\* tenant A held a@x and has just been re-registered with b@x next to tenant B
C31_Witness ==
    /\ last_op = [op |-> "upsert", entry |-> "A", email |-> "b@x", prev |-> {"a@x"}]
    /\ DOMAIN entry_routes = {"A", "B"}
    /\ "a@x" \notin DOMAIN email_to_entry
    /\ email_to_entry["b@x"] = "A"
    /\ pick_route("a@x") = None
    /\ pick_route("b@x") = entry_routes["A"]

\* C35: every email key of the index maps to a tenant that is registered and
\* whose route record carries exactly that email.
C35_IndexConsistent ==
    \A k \in DOMAIN email_to_entry :
        /\ email_to_entry[k] \in DOMAIN entry_routes
        /\ entry_routes[email_to_entry[k]].email = k

\* tenant A, registered with b@x, has just been removed; tenant B is still
\* registered and indexed under a@x
C35_Witness ==
    /\ last_op = [op |-> "remove", entry |-> "A", email |-> "", prev |-> {"b@x"}]
    /\ DOMAIN entry_routes = {"B"}
    /\ DOMAIN email_to_entry = {"a@x"}
    /\ email_to_entry["a@x"] = "B"

\* ---------------------------------------------------------------------------
\* Claims about the profile name and the name memory
\* ---------------------------------------------------------------------------
\* the name the memory holds for the request q before it is handled: by vehicle
\* id, else by sender email, else nothing
Remembered(q) ==
    IF Strip(q.id) # "" /\ Strip(q.id) \in DOMAIN last_name_by_id
    THEN last_name_by_id[Strip(q.id)]
    ELSE IF Strip(q.eml) # "" /\ Strip(q.eml) \in DOMAIN last_name_by_email
    THEN last_name_by_email[Strip(q.eml)]
    ELSE ""

\* C32 as stated: the profile name of an accepted request is its own name when
\* that is a good one; without a name, or with a placeholder, it is the name
\* remembered for the vehicle id, else the one remembered for the sender email,
\* else "Vehicle " and the first six characters of the session id.
C32_NameFallbackAsStated ==
    [][ \A q \in NameRequests :
            (reply'.method = "GET" /\ reply'.text = "OK!" /\ reply'.req = q) =>
                last_session'.profile.Name =
                    IF ~is_poor_name(Strip(q.name)) THEN Strip(q.name)
                    ELSE IF Remembered(q) # "" THEN Remembered(q)
                    ELSE "Vehicle " \o Prefix6(Strip(q.session)) ]_vars

\* C32: the profile name of an accepted request is its own name when that is a
\* good one; without a name, or with a placeholder, it is the name remembered
\* for the vehicle id, else the one remembered for the sender email; with
\* nothing remembered a missing name becomes "Vehicle " and the first six
\* characters of the session id, and a placeholder name is kept as it was sent.
C32_NameFallbackChain ==
    [][ \A q \in NameRequests :
            (reply'.method = "GET" /\ reply'.text = "OK!" /\ reply'.req = q) =>
                last_session'.profile.Name =
                    IF ~is_poor_name(Strip(q.name)) THEN Strip(q.name)
                    ELSE IF Remembered(q) # "" THEN Remembered(q)
                    ELSE IF Strip(q.name) = "" THEN "Vehicle " \o Prefix6(Strip(q.session))
                    ELSE Strip(q.name) ]_vars

\* a request without a sender and without a good name took the name remembered
\* for its vehicle id, while the memory holds another name for a sender
C32_Witness ==
    /\ reply.text = "OK!"
    /\ reply.req.eml = ""
    /\ reply.req.id = "v1"
    /\ is_poor_name(reply.req.name)
    /\ last_session.profile.Name = "Clio"
    /\ "a@x" \in DOMAIN last_name_by_email
    /\ last_name_by_email["a@x"] = "Zoe"

\* no name of the memory is a placeholder
MemoryIsGood ==
    /\ \A k \in DOMAIN last_name_by_id : ~is_poor_name(last_name_by_id[k])
    /\ \A k \in DOMAIN last_name_by_email : ~is_poor_name(last_name_by_email[k])

\* C36: the name memory, by vehicle id and by email, never holds a placeholder
\* name, and a request whose name is missing or a placeholder leaves every name
\* the memory already holds as it is.
C36_MemoryKeepsGoodNames ==
    [][ /\ MemoryIsGood'
        /\ (reply'.method = "GET" /\ reply'.req # None /\ is_poor_name(Strip(reply'.req.name))) =>
                /\ \A k \in DOMAIN last_name_by_id :
                        last_name_by_id'[k] = last_name_by_id[k]
                /\ \A k \in DOMAIN last_name_by_email :
                        last_name_by_email'[k] = last_name_by_email[k] ]_vars

\* ---------------------------------------------------------------------------
\* Claims about the session cache under interleaved handlers
\* ---------------------------------------------------------------------------
\* C33: with max_sessions fixed, the session cache never holds more than
\* max_sessions + 1 entries, whatever the interleaving of GET and POST handlers.
C33_AtMostOneExtra == Len(sessions) <= max_sessions + 1

\* C34: under a clock that never steps back, the cache order agrees with
\* last_seen in every reachable state: from least to most recently used the
\* last_seen stamps never decrease.
C34_OrderAgreesWithLastSeen == SortedByLastSeen(sessions)

\* a POST that overlapped another handler has just re-inserted a cached id next
\* to an older entry: it sits at the most-recently-used end with the newest stamp
C34_Witness ==
    /\ reply.method = "POST"
    /\ cache_op.replaced
    /\ Len(sessions) >= 2
    /\ sessions[1].last_seen < sessions[Len(sessions)].last_seen
    /\ sessions[Len(sessions)].id = cache_op.upserted
    /\ \E p \in Posts : pc[p] = "post_body"

\* ---------------------------------------------------------------------------
\* Claims about the language
\* ---------------------------------------------------------------------------
\* the supported runtime languages
Supported == {RUNTIME_LANG_MAP[l] : l \in DOMAIN RUNTIME_LANG_MAP}

\* C37: the language of every registered route, of every cached session and of
\* the last published session is "fr" or "en", whatever language upsert_route
\* was given and whatever override a request sent.
C37_LanguageSupported ==
    /\ \A t \in DOMAIN entry_routes : entry_routes[t].lang \in Supported
    /\ \A i \in 1..Len(sessions) : sessions[i].lang \in Supported
    /\ last_session # None => last_session.lang \in Supported

\* a request that asked for "de" on a route registered with "EN": the route is
\* "en", the session is "fr"
C37_Witness ==
    /\ reply.text = "OK!"
    /\ reply.req.lang = "de"
    /\ last_session.lang = "fr"
    /\ "A" \in DOMAIN entry_routes
    /\ entry_routes["A"].lang = "en"
    /\ reply.route = entry_routes["A"]

\* ---------------------------------------------------------------------------
\* Claims about the coordinator's sensor adder
\* ---------------------------------------------------------------------------
\* the step handed a session to the coordinator of entry e, which took it
UpdatedStep(e) ==
    /\ reply'.notified # None
    /\ reply'.notified.entry = e
    /\ ~reply'.consumer_raised

\* C38: for a given coordinator the sensor adder is invoked at most once per
\* (vehicle id, short name) unless the vehicle was forgotten in between or the
\* call raised: an update never invokes it for a pair whose call has returned
\* and whose vehicle was not forgotten since; a step that drops a vehicle
\* leaves none of its tracked keys; an update invokes the adder for every
\* creatable sensor of the session whose key is not tracked
C38_AdderOncePerSensor ==
    [][\A e \in Entries :
        /\ UpdatedStep(e) => adder_called'[e] \cap adder_added[e] = {}
        /\ \A v \in cars[e] \ cars'[e] :
                \A k \in tracked'[e] : ~StartsWith(k, v \o ":")
        /\ UpdatedStep(e) /\ sensor_adder[e] =>
                \A short \in DOMAIN last_session'.meta :
                    /\ is_creatable_sensor(short, last_session'.meta[short])
                    /\ tracked_key(car_id(last_session'), short) \notin tracked[e]
                    => <<car_id(last_session'), short>> \in adder_called'[e]]_vars
\* ---------------------------------------------------------------------------
\* Claims about the diagnostics
\* ---------------------------------------------------------------------------
\* the step accepted an upload (OK!) that was routed to tenant e
AcceptedFor(e) ==
    /\ reply'.text = "OK!"
    /\ reply'.route # None
    /\ reply'.route.coordinator = CoordinatorOf[e]

\* C39: the diagnostics of tenant A's config entry do not depend on the uploads
\* routed to tenant B: a run and the same run with one more upload accepted
\* for B give the same diagnostics for A, last_session included
C39_DiagnosticsIsolated ==
    [][AcceptedFor("B") /\ "A" \in domain_store
        => get_config_entry_diagnostics("A")' = get_config_entry_diagnostics("A")]_vars
====
